---- MODULE Spec2Model ----
(***************************************************************************)
(* MangaHub TCP progress-sync server (internal/tcp/server.go).             *)
(*                                                                         *)
(* One handleConn goroutine per accepted connection, one broadcastLoop     *)
(* goroutine, the registry s.connections guarded by the RWMutex s.mu and   *)
(* the buffered channel s.Broadcast.                                       *)
(*                                                                         *)
(* MangaHub UDP notification server (internal/udp/server.go).              *)
(*                                                                         *)
(* One receive loop that handles each datagram to the end before it reads  *)
(* the next, and the registration table s.clients.                         *)
(*                                                                         *)
(* MangaHub API layer (internal/user): Service.UpdateProgress with         *)
(* BroadcastProgress as a client of the TCP server, and the notification   *)
(* subscriptions as a client of the UDP server.                            *)
(*                                                                         *)
(* MangaHub WebSocket chat hub (ChatHub of cmd/websocket-server and        *)
(* cmd/all-servers): the run loop, its three channels and one handler per  *)
(* WebSocket connection.                                                   *)
(***************************************************************************)
EXTENDS Integers, Sequences, FiniteSets, TLC

\* ---------------------------------------------------------------- bounds
MaxClients == 2      \* Server.MaxClients as configured for the model
NumConns == 3        \* connections accepted by Start
MaxFrames == 2       \* progress frames read by all read loops together
BroadcastCap == 2    \* buffer of the Broadcast channel in the model

Conns == 1..NumConns

ChatCap == 2         \* buffer of ChatHub.Broadcast in the model
HistoryCap == 2      \* entries ChatHub.history keeps in the model
NumChat == 2         \* WebSocket connections upgraded
MaxChat == 3         \* payloads read by all chat read loops together
ChatConns == 1..NumChat
NoConn == 0
UserIDs == {"u1", "u2"}
NoUser == ""

\* ------------------------------------------------- frames on the wire
\* What reader.ReadBytes + json.Unmarshal can yield for one line: a read
\* error, a line that is not JSON, or a decoded record.
ReadErr == [kind |-> "err"]
BadJSON == [kind |-> "bad"]
AuthFrames ==
    {ReadErr, BadJSON} \cup
    { [kind |-> "json", type |-> t, user_id |-> u] :
          t \in {"auth", "progress"}, u \in UserIDs \cup {NoUser} }
\* ProgressUpdate.Timestamp as decoded: 0 when the frame has no timestamp
\* (the Go zero value), 1 for any time the client put there.
NoTimestamp == 0
Timestamps == {NoTimestamp, 1}

LoopFramesWith(tss) ==
    {ReadErr, BadJSON} \cup
    { [kind |-> "json", type |-> t, user_id |-> u, timestamp |-> ts] :
          t \in {"progress", "ping"}, u \in UserIDs \cup {NoUser},
          ts \in tss }

\* Frames of clients that stamp their updates, as UpdateProgress does
\* (internal/user/service.go line 397), and frames of any client.
LoopFrames == LoopFramesWith(Timestamps \ {NoTimestamp})
RawLoopFrames == LoopFramesWith(Timestamps)

AuthResponse(status, errMsg) ==
    [type |-> "auth_response", status |-> status, error |-> errMsg]

\* ProgressUpdate; src/n stand for the payload (manga_id, chapter): the
\* n-th progress frame the client of connection src sent.
\* auth and enq are history: the user the sending connection authenticated
\* as, and the position at which the update entered the Broadcast channel
\* (0 while it has not).
ProgressUpdate(user, authUser, c, n, ts) ==
    [type |-> "progress", UserID |-> user, src |-> c, n |-> n,
     Timestamp |-> ts, auth |-> authUser, enq |-> 0]

VARIABLES
    pc,           \* position of each handleConn goroutine
    userID,       \* handleConn local: authMsg.UserID (NoUser once it returned)
    upd,          \* handleConn local: the update about to be sent on Broadcast
    nread,        \* progress frames the running read loop has taken
    closed,       \* conn.Close() has been called by the server
    out,          \* per connection: the writes the server made, in order;
                  \* dropped when a registered conn is unregistered and closed
    connections,  \* Server.connections: userID -> set of conns
    muW,          \* Server.mu: the goroutine holding Lock, or NoConn
    muR,          \* Server.mu: broadcastLoop holds RLock
    Broadcast,    \* Server.Broadcast channel buffer
    dpc,          \* position of broadcastLoop
    dUpd,         \* broadcastLoop local: upd
    dCount,       \* broadcastLoop local: clientCount
    dVisited,     \* conns the range loop has produced for the current upd
    dFail,        \* conns whose Write returned an error for the current upd
    dAtRecv,      \* history (DispatchViewSpec): the conns registered for
                  \* the user of the current upd when it was received
                  \* from Broadcast
    nRegOk,       \* history: registerClient calls that returned nil
    nUnregFound,  \* history: unregisterClient calls that found the handle
    nEnq,         \* history: updates sent on Broadcast so far
    eof,          \* per connection: the peer closed the stream, the stream
                  \* failed or the server closed the conn; every read from
                  \* now on returns an error
    clients,      \* udp.Server.clients: the registration table
    udpLast,      \* history: the datagram the receive loop handled last
    udpBefore,    \* history: s.clients before that datagram was handled
    udpSent,      \* history: the WriteToUDP calls made while handling it
    udpLoop,      \* udp.Server.Start: "recv" while the receive loop runs
    library,      \* user_progress table: (user, manga) -> current_chapter
    apiPc,        \* position of the UpdateProgress call
    apiReq,       \* UpdateProgress: userID and req
    apiRes,       \* UpdateProgress: what it returned
    apiOpen,      \* BroadcastProgress: its TCP connection, client side
    apiQuiet,     \* history: the user had no registered connection when
                  \* BroadcastProgress was called
    subs,         \* user_notifications table: set of (user, manga)
    chClients,    \* ChatHub.Clients: conn -> username
    chBroadcast,  \* ChatHub.Broadcast channel buffer
    chHistory,    \* ChatHub.history
    hubPc,        \* position of ChatHub.run
    hubMsg,       \* ChatHub.run: the join or leave message it is sending
    cpc,          \* position of each WebSocket client's handler
    cname,        \* handler local: username
    cmsg,         \* handler local: payload
    chOut,        \* per conn: the messages WriteJSON was called with;
                  \* dropped when the hub closes the conn
    chLog,        \* history: the messages taken from Broadcast, in order
    chN           \* history: payloads the read loops have accepted

hvars == <<pc, userID, upd, nread, closed>>
rvars == <<connections, muW, muR>>
dvars == <<dpc, dUpd, dCount, dVisited, dFail, dAtRecv>>
gvars == <<nRegOk, nUnregFound, nEnq>>
\* State of the UDP server, and of the servers other than the TCP server.
uvars == <<clients, udpLast, udpBefore, udpSent, udpLoop>>
\* State of the API layer (internal/user).
avars == <<library, apiPc, apiReq, apiRes, apiOpen, apiQuiet>>
\* The stored notification subscriptions (internal/user).
svars == <<subs>>
\* State of the WebSocket chat hub and its clients.
cvars == <<chClients, chBroadcast, chHistory, hubPc, hubMsg, cpc, cname,
          cmsg, chOut, chLog, chN>>
ovars == <<uvars, avars, svars, cvars>>
\* State of the TCP server and its connections.
tvars == <<pc, userID, upd, nread, closed, out, connections, muW, muR,
          Broadcast, dpc, dUpd, dCount, dVisited, dFail, dAtRecv,
          nRegOk, nUnregFound, nEnq, eof>>
vars == <<tvars, ovars>>

NoUpd == [type |-> "none"]
\* udpLast before the receive loop has handled a datagram.
NoAddr == ""
NoDatagram == [from |-> NoAddr, msg |-> [type |-> "none"]]
\* apiReq before the call, apiRes before the return.
NoReq == [user |-> NoUser, manga |-> "", chapter |-> 0]
NoRes == [err |-> "", BroadcastSent |-> FALSE, BroadcastError |-> ""]
\* The user_progress rows at start: u1 has both manga in the library at
\* chapter 0, u2 has none.
LibraryRows == {<<"u1", "m1">>, <<"u1", "m2">>}

\* ------------------------------------------------------------ registry
\* s.connections[userID] read on a possibly absent key (nil map: empty).
ConnsOf(m, u) == IF u \in DOMAIN m THEN m[u] ELSE {}

RECURSIVE SumLen(_, _)
SumLen(m, keys) ==
    IF keys = {} THEN 0
    ELSE LET k == CHOOSE x \in keys : TRUE
         IN Cardinality(m[k]) + SumLen(m, keys \ {k})

\* registerClient lines 190-193: total over all users of len(conns).
Total(m) == SumLen(m, DOMAIN m)

Init ==
    /\ pc = [c \in Conns |-> "auth"]
    /\ userID = [c \in Conns |-> NoUser]
    /\ upd = [c \in Conns |-> NoUpd]
    /\ nread = [c \in Conns |-> 0]
    /\ closed = [c \in Conns |-> FALSE]
    /\ out = [c \in Conns |-> << >>]
    /\ connections = << >>
    /\ muW = NoConn
    /\ muR = FALSE
    /\ Broadcast = << >>
    /\ dpc = "recv"
    /\ dUpd = NoUpd
    /\ dCount = 0
    /\ dVisited = {}
    /\ dFail = {}
    /\ dAtRecv = {}
    /\ nRegOk = 0
    /\ nUnregFound = 0
    /\ nEnq = 0
    /\ eof = [c \in Conns |-> FALSE]
    /\ clients = << >>
    /\ udpLast = NoDatagram
    /\ udpBefore = << >>
    /\ udpSent = << >>
    /\ udpLoop = "recv"
    /\ library = [k \in LibraryRows |-> 0]
    /\ apiPc = "idle"
    /\ apiReq = NoReq
    /\ apiRes = NoRes
    /\ apiOpen = "none"
    /\ apiQuiet = FALSE
    /\ subs = {}
    /\ chClients = << >>
    /\ chBroadcast = << >>
    /\ chHistory = << >>
    /\ hubPc = "select"
    /\ hubMsg = NoUpd
    /\ cpc = [c \in ChatConns |-> "new"]
    /\ cname = [c \in ChatConns |-> NoUser]
    /\ cmsg = [c \in ChatConns |-> NoUpd]
    /\ chOut = [c \in ChatConns |-> << >>]
    /\ chLog = << >>
    /\ chN = 0

\* ------------------------------------------------------ s.mu (RWMutex)
\* Variant: Lock() that does not wait for another writer.
CanLockShared == ~muR

\* Lock() returns only when no goroutine holds the mutex for writing or
\* reading.
CanLock == muW = NoConn /\ ~muR

\* RLock() returns only when no goroutine holds the mutex for writing.
CanRLock == muW = NoConn

\* ------------------------------------------------- registerClient body
\* Variant: the capacity test off by one.
AtCapacityOffByOne(m) == Total(m) > MaxClients

\* line 194: the capacity test.
AtCapacity(m) == Total(m) >= MaxClients

\* Variant: one conn per user, a new conn replaces the user's earlier ones.
InsertReplace(m, u, c) ==
    [k \in DOMAIN m \cup {u} |-> IF k = u THEN {c} ELSE m[k]]

\* lines 198-201: create the user's set when absent, add the conn.
Insert(m, u, c) ==
    [k \in DOMAIN m \cup {u} |->
        IF k = u THEN ConnsOf(m, u) \cup {c} ELSE m[k]]

\* ----------------------------------------------- unregisterClient body
\* Variant: unregistering drops the user's whole entry.
RemoveUser(m, u, c) ==
    IF u \notin DOMAIN m THEN m ELSE [k \in DOMAIN m \ {u} |-> m[k]]

\* Variant: unregistering keeps the user's key when the set is left empty.
RemoveKeepKey(m, u, c) ==
    IF u \notin DOMAIN m THEN m ELSE [m EXCEPT ![u] = @ \ {c}]

\* lines 209-217: drop the conn from the user's set when it is there, and
\* drop the user's key when the set is left empty.
Remove(m, u, c) ==
    IF u \notin DOMAIN m THEN m
    ELSE LET rest == m[u] \ {c}
         IN IF rest = {}
            THEN [k \in DOMAIN m \ {u} |-> m[k]]
            ELSE [m EXCEPT ![u] = rest]

\* line 210: the conn is in the user's set.
Found(m, u, c) == u \in DOMAIN m /\ c \in m[u]

\* ------------------------------------------------------ handleConn
\* conn.Write: fails on a conn the server closed, otherwise succeeds or
\* fails as the peer and the network decide.
WriteResults(c) == IF closed[c] THEN {FALSE} ELSE BOOLEAN

\* reader.ReadBytes: what a read can yield, of the frames a client may
\* send.  On a stream the peer closed every read returns an error.
Readable(c, frames) == IF eof[c] THEN {ReadErr} ELSE frames

\* out records every conn.Write the server makes on c, in order.
Wrote(c, frame) ==
    out' = [out EXCEPT ![c] = Append(@, frame)]

\* lines 116, 121, 127: the reason sent back for a rejected auth message,
\* "" when the message is accepted.
AuthError(f) ==
    IF f.kind = "bad" THEN "invalid_auth_message"
    ELSE IF f.type # "auth" THEN "expected_auth_message"
    ELSE IF f.user_id = NoUser THEN "missing_user_id"
    ELSE ""

\* lines 102-129: validate the auth message f the read returned.  Every
\* early return runs the deferred conn.Close().
ReadAuthFrame(c, f) ==
    /\ pc[c] = "auth"
    /\ IF f.kind = "err" THEN
          /\ pc' = [pc EXCEPT ![c] = "done"]
          /\ closed' = [closed EXCEPT ![c] = TRUE]
          /\ UNCHANGED <<userID, out>>
       ELSE IF AuthError(f) # "" THEN
          /\ Wrote(c, AuthResponse("error", AuthError(f)))
          /\ pc' = [pc EXCEPT ![c] = "done"]
          /\ closed' = [closed EXCEPT ![c] = TRUE]
          /\ UNCHANGED userID
       ELSE
          /\ userID' = [userID EXCEPT ![c] = f.user_id]
          /\ pc' = [pc EXCEPT ![c] = "reg_lock"]
          /\ UNCHANGED <<out, closed>>
    /\ UNCHANGED <<upd, nread, rvars, Broadcast, dvars, gvars>>
    /\ eof' = [eof EXCEPT ![c] = eof[c] \/ pc'[c] = "done"]
    /\ UNCHANGED ovars

\* lines 107-129 for a client that may send any of the auth frames.
ReadAuth(c) ==
    \E f \in Readable(c, AuthFrames) : ReadAuthFrame(c, f)

\* registerClient line 186: s.mu.Lock().
RegLock(c) ==
    /\ pc[c] = "reg_lock"
    /\ CanLock
    /\ muW' = c
    /\ pc' = [pc EXCEPT ![c] = "reg_check"]
    /\ UNCHANGED <<userID, upd, nread, closed, out, connections, muR,
                   Broadcast, dvars, gvars>>
    /\ UNCHANGED <<eof, ovars>>

\* registerClient lines 190-196: count, and return ErrServerAtCapacity
\* (releasing the mutex) when the server is full.
RegCheck(c) ==
    /\ pc[c] = "reg_check"
    /\ IF AtCapacity(connections)
       THEN /\ pc' = [pc EXCEPT ![c] = "reject"]
            /\ muW' = NoConn
       ELSE /\ pc' = [pc EXCEPT ![c] = "reg_insert"]
            /\ UNCHANGED muW
    /\ UNCHANGED <<userID, upd, nread, closed, out, connections, muR,
                   Broadcast, dvars, gvars>>
    /\ UNCHANGED <<eof, ovars>>

\* registerClient lines 198-202: insert, return nil, release the mutex.
RegInsert(c) ==
    /\ pc[c] = "reg_insert"
    /\ connections' = Insert(connections, userID[c], c)
    /\ muW' = NoConn
    /\ nRegOk' = nRegOk + 1
    /\ pc' = [pc EXCEPT ![c] = "ack"]
    /\ UNCHANGED <<userID, upd, nread, closed, out, muR, Broadcast, dvars,
                   nUnregFound, nEnq>>
    /\ UNCHANGED <<eof, ovars>>

\* Variant: the return after the refusal is missing, the handler goes on
\* to the acknowledgment and the read loop.
SendRejectNoReturn(c) ==
    /\ pc[c] = "reject"
    /\ Wrote(c, AuthResponse("error", "server_at_capacity"))
    /\ pc' = [pc EXCEPT ![c] = "ack"]
    /\ UNCHANGED <<userID, closed, upd, nread, rvars, Broadcast, dvars, gvars>>
    /\ UNCHANGED <<eof, ovars>>

\* lines 133-138 and 102: registerClient failed, tell the client, return
\* and close.
SendReject(c) ==
    /\ pc[c] = "reject"
    /\ Wrote(c, AuthResponse("error", "server_at_capacity"))
    /\ closed' = [closed EXCEPT ![c] = TRUE]
    /\ userID' = [userID EXCEPT ![c] = NoUser]
    /\ pc' = [pc EXCEPT ![c] = "done"]
    /\ UNCHANGED <<upd, nread, rvars, Broadcast, dvars, gvars>>
    /\ eof' = [eof EXCEPT ![c] = TRUE]
    /\ UNCHANGED ovars

\* line 145: what the log keeps of an acknowledgment whose Write returned
\* an error (the handler's local err).
WriteError(frame) == [type |-> "write_error", frame |-> frame]

\* Variant: the result of writing the acknowledgment is ignored.
SendAckIgnoreError(c) ==
    /\ pc[c] = "ack"
    /\ \E ok \in WriteResults(c) :
          Wrote(c, IF ok THEN AuthResponse("ok", "")
                         ELSE WriteError(AuthResponse("ok", "")))
    /\ pc' = [pc EXCEPT ![c] = "loop"]
    /\ UNCHANGED <<userID, upd, nread, closed, rvars, Broadcast, dvars, gvars>>
    /\ UNCHANGED <<eof, ovars>>

\* Variant: on a failed acknowledgment the handler returns without
\* calling unregisterClient; only the deferred conn.Close() runs.
SendAckNoCleanup(c) ==
    /\ pc[c] = "ack"
    /\ \E ok \in WriteResults(c) :
          /\ Wrote(c, IF ok THEN AuthResponse("ok", "")
                            ELSE WriteError(AuthResponse("ok", "")))
          /\ pc' = [pc EXCEPT ![c] = IF ok THEN "loop" ELSE "done"]
          /\ closed' = [closed EXCEPT ![c] = ~ok]
          /\ eof' = [eof EXCEPT ![c] = eof[c] \/ ~ok]
    /\ UNCHANGED <<userID, upd, nread, rvars, Broadcast, dvars, gvars>>
    /\ UNCHANGED ovars

\* lines 144-148: acknowledge; on a failed write unregister and return.
SendAck(c) ==
    /\ pc[c] = "ack"
    /\ \E ok \in WriteResults(c) :
          /\ Wrote(c, IF ok THEN AuthResponse("ok", "")
                            ELSE WriteError(AuthResponse("ok", "")))
          /\ pc' = [pc EXCEPT ![c] = IF ok THEN "loop" ELSE "unreg_lock"]
    /\ UNCHANGED <<userID, upd, nread, closed, rvars, Broadcast, dvars, gvars>>
    /\ UNCHANGED <<eof, ovars>>

\* lines 168-170: the user ID put on the update.
Normalize(frameUser, authUser) ==
    IF frameUser = NoUser THEN authUser ELSE frameUser

\* Progress frames the read loops have accepted so far: those sent on
\* Broadcast and those about to be.
FramesRead == nEnq + Cardinality({ c \in Conns : pc[c] = "send" })

\* The read loop as it would be if a frame that does not decode, or that is
\* not a progress frame, ended it (break in place of continue).
ReadLoopFrameBreak(c, f, limit) ==
    /\ pc[c] = "loop"
    /\ IF f.kind = "err" \/ f.kind = "bad" \/ f.type # "progress" THEN
          /\ pc' = [pc EXCEPT ![c] = "unreg_lock"]
          /\ UNCHANGED <<upd, nread>>
       ELSE
          /\ FramesRead < limit
          /\ nread' = [nread EXCEPT ![c] = @ + 1]
          /\ upd' = [upd EXCEPT ![c] =
                ProgressUpdate(Normalize(f.user_id, userID[c]),
                               userID[c], c, nread[c] + 1, f.timestamp)]
          /\ pc' = [pc EXCEPT ![c] = "send"]
    /\ UNCHANGED <<userID, closed, out, rvars, Broadcast, dvars, gvars>>
    /\ UNCHANGED <<eof, ovars>>

\* lines 152-173: one iteration of the read loop up to the channel send, for
\* the frame f returned by the read, while fewer than limit progress frames
\* have been accepted.
ReadLoopFrame(c, f, limit) ==
    /\ pc[c] = "loop"
    /\ IF f.kind = "err" THEN
          /\ pc' = [pc EXCEPT ![c] = "unreg_lock"]
          /\ UNCHANGED <<upd, nread>>
       ELSE IF f.kind = "bad" \/ f.type # "progress" THEN
          UNCHANGED <<pc, upd, nread>>
       ELSE
          /\ FramesRead < limit
          /\ nread' = [nread EXCEPT ![c] = @ + 1]
          /\ upd' = [upd EXCEPT ![c] =
                ProgressUpdate(Normalize(f.user_id, userID[c]),
                               userID[c], c, nread[c] + 1, f.timestamp)]
          /\ pc' = [pc EXCEPT ![c] = "send"]
    /\ UNCHANGED <<userID, closed, out, rvars, Broadcast, dvars, gvars>>
    /\ UNCHANGED <<eof, ovars>>

\* The read loop of a client sending the given frames.
ReadLoop(c, frames, limit) ==
    \E f \in Readable(c, frames) : ReadLoopFrame(c, f, limit)

ReadFrame(c) == ReadLoop(c, LoopFrames, MaxFrames)

\* A send on / receive from the buffered channel.
ChanCanSend(q) == Len(q) < BroadcastCap
\* Variant: the channel hands out the newest element first.
ChanSendFront(q, e) == <<e>> \o q

ChanSend(q, e) == Append(q, e)
ChanRecv(q) == Head(q)
\* Variant: a receive that leaves the element in the buffer.
ChanRestKeep(q) == q

ChanRest(q) == Tail(q)

\* Variant: a send that gives up when the buffer is full (select with a
\* default case): the update is dropped and the read loop goes on.
EnqueueOrDrop(c) ==
    /\ pc[c] = "send"
    /\ IF ChanCanSend(Broadcast)
       THEN /\ Broadcast' = ChanSend(Broadcast, [upd[c] EXCEPT !.enq = nEnq + 1])
            /\ nEnq' = nEnq + 1
       ELSE UNCHANGED <<Broadcast, nEnq>>
    /\ upd' = [upd EXCEPT ![c] = NoUpd]
    /\ pc' = [pc EXCEPT ![c] = "loop"]
    /\ UNCHANGED <<userID, nread, closed, out, rvars, dvars,
                   nRegOk, nUnregFound>>
    /\ UNCHANGED <<eof, ovars>>

\* line 175: s.Broadcast <- upd (blocks while the buffer is full).
Enqueue(c) ==
    /\ pc[c] = "send"
    /\ ChanCanSend(Broadcast)
    /\ Broadcast' = ChanSend(Broadcast, [upd[c] EXCEPT !.enq = nEnq + 1])
    /\ nEnq' = nEnq + 1
    /\ upd' = [upd EXCEPT ![c] = NoUpd]
    /\ pc' = [pc EXCEPT ![c] = "loop"]
    /\ UNCHANGED <<userID, nread, closed, out, rvars, dvars,
                   nRegOk, nUnregFound>>
    /\ UNCHANGED <<eof, ovars>>

\* unregisterClient line 206: s.mu.Lock().
UnregLock(c) ==
    /\ pc[c] = "unreg_lock"
    /\ CanLock
    /\ muW' = c
    /\ pc' = [pc EXCEPT ![c] = "unreg"]
    /\ UNCHANGED <<userID, upd, nread, closed, out, connections, muR,
                   Broadcast, dvars, gvars>>
    /\ UNCHANGED <<eof, ovars>>

\* unregisterClient lines 209-218: remove, close, release the mutex; then
\* handleConn returns (lines 147, 178-180) and its deferred conn.Close()
\* runs.
UnregisterClient(c) ==
    /\ pc[c] = "unreg"
    /\ connections' = Remove(connections, userID[c], c)
    /\ nUnregFound' =
          IF Found(connections, userID[c], c) THEN nUnregFound + 1
          ELSE nUnregFound
    /\ closed' = [closed EXCEPT ![c] = TRUE]
    /\ muW' = NoConn
    /\ pc' = [pc EXCEPT ![c] = "done"]
    /\ userID' = [userID EXCEPT ![c] = NoUser]
    /\ nread' = [nread EXCEPT ![c] = 0]
    /\ out' = [out EXCEPT ![c] = << >>]
    /\ UNCHANGED <<upd, muR, Broadcast, dvars, nRegOk, nEnq>>
    /\ eof' = [eof EXCEPT ![c] = TRUE]
    /\ UNCHANGED ovars

\* ----------------------------------------------------- broadcastLoop
\* Variant: the update goes to every registered conn.
TargetsAll(m, u) == UNION { m[k] : k \in DOMAIN m }

\* lines 231-232: the conns the update goes to.
Targets(m, u) == ConnsOf(m, u.UserID)

\* Variant: the range loop stops at the first failed Write.
RangeNextAbort ==
    IF dFail # {} THEN {} ELSE Targets(connections, dUpd) \ dVisited

\* Variant: the dispatcher ranges over the user's conns as they were when
\* it received the update.
RangeNextAtRecv == dAtRecv \ dVisited

\* line 234: the conns the range loop has still to produce.  conns is the
\* registry's own map, not a copy, so the loop reads the live set.
RangeNext == Targets(connections, dUpd) \ dVisited

\* lines 222-228: receive the next update from the channel.
DequeueStep ==
    /\ dpc = "recv"
    /\ Broadcast # << >>
    /\ dUpd' = ChanRecv(Broadcast)
    /\ Broadcast' = ChanRest(Broadcast)
    /\ dpc' = "rlock"
    /\ UNCHANGED <<hvars, out, rvars, dCount, dVisited, dFail, gvars>>
    /\ UNCHANGED <<eof, ovars>>

Dequeue == DequeueStep /\ UNCHANGED dAtRecv

\* The same step, with the registry as it is at the receive put on record.
DequeueObserved ==
    /\ DequeueStep
    /\ dAtRecv' = ConnsOf(connections, dUpd'.UserID)

\* lines 230-233: s.mu.RLock(), look the user up, count.
RLock ==
    /\ dpc = "rlock"
    /\ CanRLock
    /\ muR' = TRUE
    /\ dCount' = Cardinality(Targets(connections, dUpd))
    /\ dpc' = "range"
    /\ UNCHANGED <<hvars, out, connections, muW, Broadcast, dUpd, dVisited,
                   dFail, dAtRecv, gvars>>
    /\ UNCHANGED <<eof, ovars>>

\* lines 234-238: one iteration of the range loop, one conn.Write.
WriteOne ==
    /\ dpc = "range"
    /\ \E h \in RangeNext :
          \E ok \in WriteResults(h) :
              /\ Wrote(h, dUpd)
              /\ dVisited' = dVisited \cup {h}
              /\ dFail' = IF ok THEN dFail ELSE dFail \cup {h}
    /\ UNCHANGED <<hvars, rvars, Broadcast, dpc, dUpd, dCount, dAtRecv,
                   gvars>>
    /\ UNCHANGED <<eof, ovars>>

\* Variant: the dispatcher goes on to the next update without releasing
\* the read lock.
RUnlockMissing ==
    /\ dpc = "range"
    /\ RangeNext = {}
    /\ dpc' = "recv"
    /\ dUpd' = NoUpd
    /\ dCount' = 0
    /\ dVisited' = {}
    /\ dFail' = {}
    /\ dAtRecv' = {}
    /\ UNCHANGED <<hvars, out, rvars, Broadcast, gvars>>
    /\ UNCHANGED <<eof, ovars>>

\* line 239: the range loop is over, s.mu.RUnlock(); lines 241-247 log.
RUnlock ==
    /\ dpc = "range"
    /\ RangeNext = {}
    /\ muR' = FALSE
    /\ dpc' = "recv"
    /\ dUpd' = NoUpd
    /\ dCount' = 0
    /\ dVisited' = {}
    /\ dFail' = {}
    /\ dAtRecv' = {}
    /\ UNCHANGED <<hvars, out, connections, muW, Broadcast, gvars>>
    /\ UNCHANGED <<eof, ovars>>

\* The peer closes its end, or the stream fails: from now on the reads of
\* handleConn (lines 107, 152) return an error.
PeerClose(c) ==
    /\ pc[c] # "done"
    /\ ~eof[c]
    /\ eof' = [eof EXCEPT ![c] = TRUE]
    /\ UNCHANGED <<pc, userID, upd, nread, closed, out, rvars, Broadcast,
                   dvars, gvars, ovars>>

Next ==
    \/ \E c \in Conns : ReadAuth(c)
    \/ \E c \in Conns : RegLock(c)
    \/ \E c \in Conns : RegCheck(c)
    \/ \E c \in Conns : RegInsert(c)
    \/ \E c \in Conns : SendReject(c)
    \/ \E c \in Conns : SendAck(c)
    \/ \E c \in Conns : ReadFrame(c)
    \/ \E c \in Conns : Enqueue(c)
    \/ \E c \in Conns : UnregLock(c)
    \/ \E c \in Conns : UnregisterClient(c)
    \/ Dequeue
    \/ RLock
    \/ WriteOne
    \/ RUnlock

Spec == Init /\ [][Next]_vars

\* The server while no client sends a progress frame: connections come, are
\* registered or refused, and go; nothing is sent on Broadcast.
ReadNoProgress(c) == ReadFrame(c) /\ pc'[c] # "send"

RegistryNext ==
    \/ \E c \in Conns : ReadAuth(c)
    \/ \E c \in Conns : RegLock(c)
    \/ \E c \in Conns : RegCheck(c)
    \/ \E c \in Conns : RegInsert(c)
    \/ \E c \in Conns : SendReject(c)
    \/ \E c \in Conns : SendAck(c)
    \/ \E c \in Conns : ReadNoProgress(c)
    \/ \E c \in Conns : UnregLock(c)
    \/ \E c \in Conns : UnregisterClient(c)

RegistrySpec == Init /\ [][RegistryNext]_vars

\* The server with as many connections as the registry admits, whose
\* clients send progress frames and leave, while the dispatcher's receives
\* put the registry on record.
DispatchViewNext ==
    \/ \E c \in 1..MaxClients : ReadAuth(c)
    \/ \E c \in 1..MaxClients : RegLock(c)
    \/ \E c \in 1..MaxClients : RegCheck(c)
    \/ \E c \in 1..MaxClients : RegInsert(c)
    \/ \E c \in 1..MaxClients : SendAck(c)
    \/ \E c \in 1..MaxClients : ReadFrame(c)
    \/ \E c \in 1..MaxClients : Enqueue(c)
    \/ \E c \in 1..MaxClients : UnregLock(c)
    \/ \E c \in 1..MaxClients : UnregisterClient(c)
    \/ DequeueObserved
    \/ RLock
    \/ WriteOne
    \/ RUnlock

DispatchViewSpec == Init /\ [][DispatchViewNext]_vars

\* The server under load: as many connections as the registry admits, none
\* refused, their clients sending one progress frame more than the
\* Broadcast channel buffers, so that a handler finds the channel full.
Producers == 1..MaxClients

BackpressureNext ==
    \/ \E c \in Producers : ReadAuth(c)
    \/ \E c \in Producers : RegLock(c)
    \/ \E c \in Producers : RegCheck(c)
    \/ \E c \in Producers : RegInsert(c)
    \/ \E c \in Producers : SendAck(c)
    \/ \E c \in Producers : ReadLoop(c, LoopFrames, BroadcastCap + 1)
    \/ \E c \in Producers : Enqueue(c)
    \/ \E c \in Producers : UnregLock(c)
    \/ \E c \in Producers : UnregisterClient(c)
    \/ Dequeue
    \/ RLock
    \/ WriteOne
    \/ RUnlock

BackpressureSpec == Init /\ [][BackpressureNext]_vars

\* The Go scheduler runs every goroutine that can take a step: a handler
\* past a read that returned, and the dispatcher.  Reads wait for the
\* client, so no fairness is assumed for ReadAuth and the read loop.
HandlerFairness(c) ==
    /\ WF_vars(RegLock(c))
    /\ WF_vars(RegCheck(c))
    /\ WF_vars(RegInsert(c))
    /\ WF_vars(SendReject(c))
    /\ WF_vars(SendAck(c))
    /\ WF_vars(Enqueue(c))
    /\ WF_vars(UnregLock(c))
    /\ WF_vars(UnregisterClient(c))

DispatcherFairness ==
    /\ WF_vars(Dequeue)
    /\ WF_vars(RLock)
    /\ WF_vars(WriteOne)
    /\ WF_vars(RUnlock)

FairBackpressureSpec ==
    /\ BackpressureSpec
    /\ \A c \in Producers : HandlerFairness(c)
    /\ DispatcherFairness

TypeOK ==
    /\ pc \in [Conns -> {"auth", "reg_lock", "reg_check", "reg_insert",
                         "reject", "ack", "loop", "send", "unreg_lock",
                         "unreg", "done"}]
    /\ userID \in [Conns -> UserIDs \cup {NoUser}]
    /\ muW \in Conns \cup {NoConn}
    /\ muR \in BOOLEAN
    /\ Len(Broadcast) <= BroadcastCap
    /\ dpc \in {"recv", "rlock", "range"}
    /\ dAtRecv \subseteq Conns
    /\ eof \in [Conns -> BOOLEAN]

\* ====================================================================
\* UDP notification server (internal/udp/server.go)
\* ====================================================================
UdpAddrs == {"a1", "a2"}
MangaIDs == {"m1", "m2"}
\* RegisterMessage.MangaIDs / UnregisterMessage.MangaIDs: a JSON list.
MangaLists == { << >>, <<"m1">>, <<"m2">>, <<"m1", "m2">> }

\* lines 48-54; Preferences and Label are stored and never read.
clientInfo(addr, user, mangaIDs) ==
    [Addr |-> addr, UserID |-> user, MangaIDs |-> mangaIDs]

\* What one turn of the receive loop can get (lines 96-121): a failed
\* ReadFromUDP, bytes that are not JSON, an envelope of unknown type, or
\* an envelope of a known type whose payload decodes or does not.
UdpReadErr == [type |-> "read_error"]
UdpBadJSON == [type |-> "bad_json"]
UdpUnknown == [type |-> "unknown"]
RegisterMessages ==
    { [type |-> "register", decodes |-> FALSE, user_id |-> NoUser,
       manga_ids |-> << >>] } \cup
    { [type |-> "register", decodes |-> TRUE, user_id |-> u, manga_ids |-> l] :
          u \in UserIDs \cup {NoUser}, l \in MangaLists }
UnregisterMessages ==
    { [type |-> "unregister", decodes |-> FALSE, user_id |-> NoUser,
       manga_ids |-> << >>] } \cup
    { [type |-> "unregister", decodes |-> TRUE, user_id |-> u,
       manga_ids |-> l] :
          u \in UserIDs \cup {NoUser}, l \in MangaLists }
Notifications ==
    { [type |-> "chapter_release", decodes |-> FALSE, manga_id |-> "",
       timestamp |-> NoTimestamp] } \cup
    { [type |-> "chapter_release", decodes |-> TRUE, manga_id |-> m,
       timestamp |-> ts] : m \in MangaIDs, ts \in Timestamps }

\* lines 167-179.
RegisterResponse(status, message) ==
    [type |-> "register_response", status |-> status, message |-> message]

\* One conn.WriteToUDP call and whether it returned nil.
Sent(addr, msg, ok) == [to |-> addr, msg |-> msg, ok |-> ok]

\* Variant: a registration replaces only the user's entry of the same
\* address.
udpRegisterClientSameAddr(cs, info) ==
    SelectSeq(cs, LAMBDA c :
        ~(c.UserID = info.UserID /\ c.Addr = info.Addr)) \o <<info>>

\* Variant: a registration also drops what other users registered from
\* the same address.
udpRegisterClientByAddr(cs, info) ==
    SelectSeq(cs, LAMBDA c :
        c.UserID # info.UserID /\ c.Addr # info.Addr) \o <<info>>

\* registerClient, lines 200-214.
udpRegisterClient(cs, info) ==
    SelectSeq(cs, LAMBDA c : c.UserID # info.UserID) \o <<info>>

\* Variant: two topic lists match only when they are the same list.
overlapSame(a, b) == a = b /\ Len(a) > 0

\* lines 241-250.
overlap(a, b) == \E i \in 1..Len(a), j \in 1..Len(b) : a[i] = b[j]

\* Variant: an unregister drops only entries registered from the address
\* it came from.
udpUnregisterClientSameAddr(cs, userID_, mangaIDs, addr) ==
    SelectSeq(cs, LAMBDA c :
        \/ c.UserID # userID_
        \/ c.Addr # addr
        \/ /\ Len(mangaIDs) # 0
           /\ ~(overlap(c.MangaIDs, mangaIDs) \/ Len(c.MangaIDs) = 0))

\* unregisterClient, lines 217-239: the entries that are kept.  addr is
\* not used.
udpUnregisterClient(cs, userID_, mangaIDs, addr) ==
    SelectSeq(cs, LAMBDA c :
        \/ c.UserID # userID_
        \/ /\ Len(mangaIDs) # 0
           /\ ~(overlap(c.MangaIDs, mangaIDs) \/ Len(c.MangaIDs) = 0))

\* lines 189-191: time.Now().Unix() stands in for a missing timestamp.
Now == 1
Stamp(ts) == IF ts = NoTimestamp THEN Now ELSE ts

\* The receive loop has handled datagram m from address a: the table is
\* cs, the sends made are sent.
Received(a, m, cs, sent) ==
    /\ udpLoop = "recv"
    /\ udpLoop' = "recv"
    /\ udpLast' = [from |-> a, msg |-> m]
    /\ udpBefore' = clients
    /\ clients' = cs
    /\ udpSent' = sent

\* The same, for a datagram of a sender outside the modelled servers.
Handled(a, m, cs, sent) ==
    /\ Received(a, m, cs, sent)
    /\ UNCHANGED <<tvars, avars, svars, cvars>>

\* Variant: the receive loop returns on a datagram it cannot dispatch.
UdpDropStop(a, m) ==
    /\ m \in {UdpReadErr, UdpBadJSON, UdpUnknown}
    /\ udpLoop = "recv"
    /\ udpLoop' = "stopped"
    /\ udpLast' = [from |-> IF m = UdpReadErr THEN NoAddr ELSE a, msg |-> m]
    /\ udpBefore' = clients
    /\ udpSent' = << >>
    /\ UNCHANGED <<clients, tvars, avars, svars, cvars>>

\* lines 96-110, 119-121: nothing to dispatch, the loop goes on.
UdpDrop(a, m) ==
    /\ m \in {UdpReadErr, UdpBadJSON, UdpUnknown}
    /\ Handled(IF m = UdpReadErr THEN NoAddr ELSE a, m, clients, << >>)

\* handleRegister, lines 126-149.
RegisterStep(a, m) ==
    /\ m \in RegisterMessages
    /\ \E ok \in BOOLEAN :
          IF ~m.decodes THEN
              Received(a, m, clients,
                  << Sent(a, RegisterResponse("error",
                                 "invalid_register_payload"), ok) >>)
          ELSE IF m.user_id = NoUser THEN
              Received(a, m, clients,
                  << Sent(a, RegisterResponse("error", "missing_user_id"),
                          ok) >>)
          ELSE
              Received(a, m,
                  udpRegisterClient(clients,
                      clientInfo(a, m.user_id, m.manga_ids)),
                  << Sent(a, RegisterResponse("ok", "registered"), ok) >>)

HandleRegister(a, m) ==
    /\ RegisterStep(a, m)
    /\ UNCHANGED <<tvars, avars, svars, cvars>>

\* handleUnregister, lines 152-165.
UnregisterStep(a, m) ==
    /\ m \in UnregisterMessages
    /\ \E ok \in BOOLEAN :
          IF ~m.decodes \/ m.user_id = NoUser THEN
              Received(a, m, clients, << >>)
          ELSE
              Received(a, m,
                  udpUnregisterClient(clients, m.user_id, m.manga_ids, a),
                  << Sent(a, RegisterResponse("ok", "unregistered"), ok) >>)

HandleUnregister(a, m) ==
    /\ UnregisterStep(a, m)
    /\ UNCHANGED <<tvars, avars, svars, cvars>>

\* Variant: broadcast returns at the first WriteToUDP that fails.
HandleNotificationAbort(a, m) ==
    /\ m \in Notifications
    /\ IF ~m.decodes THEN
           Handled(a, m, clients, << >>)
       ELSE
           \E oks \in [1..Len(clients) -> BOOLEAN] :
               LET all == [i \in 1..Len(clients) |->
                              Sent(clients[i].Addr,
                                   [type |-> "chapter_release",
                                    manga_id |-> m.manga_id,
                                    timestamp |-> Stamp(m.timestamp)],
                                   oks[i])]
                   bad == { i \in 1..Len(clients) : ~oks[i] }
                   last == IF bad = {} THEN Len(clients)
                           ELSE CHOOSE i \in bad : \A j \in bad : i <= j
               IN Handled(a, m, clients, SubSeq(all, 1, last))

\* handleNotification and broadcast, lines 182-197 and 253-275: one
\* WriteToUDP per entry of a copy of the table, failures logged.
HandleNotification(a, m) ==
    /\ m \in Notifications
    /\ IF ~m.decodes THEN
           Handled(a, m, clients, << >>)
       ELSE
           \E oks \in [1..Len(clients) -> BOOLEAN] :
               Handled(a, m, clients,
                   [i \in 1..Len(clients) |->
                       Sent(clients[i].Addr,
                            [type |-> "chapter_release",
                             manga_id |-> m.manga_id,
                             timestamp |-> Stamp(m.timestamp)],
                            oks[i])])

UdpNext ==
    \/ \E a \in UdpAddrs, m \in {UdpReadErr, UdpBadJSON, UdpUnknown} :
          UdpDrop(a, m)
    \/ \E a \in UdpAddrs, m \in RegisterMessages : HandleRegister(a, m)
    \/ \E a \in UdpAddrs, m \in UnregisterMessages : HandleUnregister(a, m)
    \/ \E a \in UdpAddrs, m \in Notifications : HandleNotification(a, m)

UdpSpec == Init /\ [][UdpNext]_vars

\* Positions of the entries of user u in table cs.
EntriesOf(cs, u) == { i \in 1..Len(cs) : cs[i].UserID = u }

UdpTypeOK ==
    /\ \A i \in 1..Len(clients) :
          /\ clients[i].Addr \in UdpAddrs
          /\ clients[i].UserID \in UserIDs
          /\ clients[i].MangaIDs \in MangaLists
    /\ udpLast.from \in UdpAddrs \cup {NoAddr}
    /\ Len(udpSent) <= Len(clients) + 1
    /\ udpLoop \in {"recv", "stopped"}

\* ====================================================================
\* Notification subscriptions (internal/user/service.go lines 153-240,
\* 477-613) as a client of the UDP server
\* ====================================================================
\* The datagrams RegisterForUDPNotifications and
\* UnregisterForUDPNotifications send for one manga.
SubRegister(u, m) ==
    [type |-> "register", decodes |-> TRUE, user_id |-> u,
     manga_ids |-> <<m>>]
SubUnregister(u, m) ==
    [type |-> "unregister", decodes |-> TRUE, user_id |-> u,
     manga_ids |-> <<m>>]

\* service.go lines 153-181: store the subscription, then register with
\* the UDP server from a socket of the call, address a.  The datagram is
\* delivered and handled before the call returns.
SubscribeToMangaNotifications(a, u, m) ==
    /\ \E dbOk \in BOOLEAN :
          IF u = NoUser \/ ~dbOk THEN
              UNCHANGED <<subs, uvars>>
          ELSE
              /\ subs' = subs \cup {<<u, m>>}
              /\ RegisterStep(a, SubRegister(u, m))
    /\ UNCHANGED <<tvars, avars, cvars>>

\* service.go lines 216-240: delete the subscription, then send the
\* unregister datagram for that manga.
UnsubscribeFromMangaNotifications(a, u, m) ==
    /\ \E dbOk \in BOOLEAN :
          IF u = NoUser \/ ~dbOk THEN
              UNCHANGED <<subs, uvars>>
          ELSE
              /\ subs' = subs \ {<<u, m>>}
              /\ UnregisterStep(a, SubUnregister(u, m))
    /\ UNCHANGED <<tvars, avars, cvars>>

\* The UDP server with the API layer as its only registrant, and release
\* events.
SubsNext ==
    \/ \E a \in UdpAddrs, u \in UserIDs \cup {NoUser}, m \in MangaIDs :
          SubscribeToMangaNotifications(a, u, m)
    \/ \E a \in UdpAddrs, u \in UserIDs \cup {NoUser}, m \in MangaIDs :
          UnsubscribeFromMangaNotifications(a, u, m)
    \/ \E a \in UdpAddrs, m \in Notifications : HandleNotification(a, m)

SubsSpec == Init /\ [][SubsNext]_vars

\* The manga user u has a stored subscription for.
SubscriptionsOf(u) == { m \in MangaIDs : <<u, m>> \in subs }

\* ====================================================================
\* API layer: Service.UpdateProgress (internal/user/service.go) and
\* BroadcastProgress (internal/user/tcp_client.go)
\* ====================================================================
\* The connection BroadcastProgress dials, and the connections of the
\* other clients of the TCP server.
ApiConn == NumConns
ApiClients == Conns \ {ApiConn}

\* req.CurrentChapter: negative, within and beyond TotalChapters.
Chapters == {-1, 1, 3}
\* MangaSvc.GetMangaByID: m1 is in the local manga table with
\* TotalChapters chapters, m2 is not (a MangaDex manga).
TotalChapters == 2
LocalManga == {"m1"}

\* Variant: BroadcastSent is set for every call that got as far as the
\* broadcast, whatever BroadcastProgress returned.
ApiReturnSentAnyway(err, sent, berr) ==
    /\ apiPc' = "done"
    /\ apiRes' = [err |-> err, BroadcastSent |-> (err = ""),
                  BroadcastError |-> berr]
    /\ apiOpen' = IF apiOpen = "open" THEN "closed" ELSE apiOpen

\* A return of UpdateProgress (lines 349-415).
ApiReturn(err, sent, berr) ==
    /\ apiPc' = "done"
    /\ apiRes' = [err |-> err, BroadcastSent |-> sent, BroadcastError |-> berr]
    /\ apiOpen' = IF apiOpen = "open" THEN "closed" ELSE apiOpen

\* service.go line 340: a call of UpdateProgress.
UpdateProgressCall(u, m, ch) ==
    /\ apiPc = "idle"
    /\ apiReq' = [user |-> u, manga |-> m, chapter |-> ch]
    /\ apiPc' = "library"
    /\ UNCHANGED <<library, apiRes, apiOpen, apiQuiet>>
    /\ UNCHANGED <<tvars, uvars, svars, cvars>>

\* service.go lines 342-353: the manga must be in the user's library.
LibraryCheck ==
    /\ apiPc = "library"
    /\ \E dbOk \in BOOLEAN :
          IF ~dbOk THEN
              ApiReturn("database_error: failed to check library entry",
                        FALSE, "")
          ELSE IF <<apiReq.user, apiReq.manga>> \notin DOMAIN library THEN
              ApiReturn("validation_error: manga is not in user's library",
                        FALSE, "")
          ELSE
              /\ apiPc' = "validate"
              /\ UNCHANGED <<apiRes, apiOpen>>
    /\ UNCHANGED <<library, apiReq, apiQuiet>>
    /\ UNCHANGED <<tvars, uvars, svars, cvars>>

\* service.go lines 356-369: the chapter is validated against the manga's
\* metadata when the manga service is set and finds the manga.
ValidateChapter ==
    /\ apiPc = "validate"
    /\ \E found \in IF apiReq.manga \in LocalManga THEN BOOLEAN ELSE {FALSE} :
          IF found /\ apiReq.chapter < 0 THEN
              ApiReturn("validation_error: chapter number cannot be negative",
                        FALSE, "")
          ELSE IF found /\ TotalChapters > 0
                        /\ apiReq.chapter > TotalChapters THEN
              ApiReturn("validation_error: chapter number exceeds total chapters",
                        FALSE, "")
          ELSE
              /\ apiPc' = "update"
              /\ UNCHANGED <<apiRes, apiOpen>>
    /\ UNCHANGED <<library, apiReq, apiQuiet>>
    /\ UNCHANGED <<tvars, uvars, svars, cvars>>

\* Variant: a failed UPDATE is logged and the call goes on to the
\* broadcast.
DbUpdateIgnoreError ==
    /\ apiPc = "update"
    /\ \E execOk \in BOOLEAN :
          IF execOk /\ <<apiReq.user, apiReq.manga>> \in DOMAIN library THEN
              library' = [library EXCEPT
                             ![<<apiReq.user, apiReq.manga>>] = apiReq.chapter]
          ELSE
              UNCHANGED library
    /\ apiPc' = "dial"
    /\ UNCHANGED <<apiReq, apiRes, apiOpen, apiQuiet>>
    /\ UNCHANGED <<tvars, uvars, svars, cvars>>

\* service.go lines 372-390: the UPDATE of the user_progress row.
DbUpdate ==
    /\ apiPc = "update"
    /\ \E execOk \in BOOLEAN :
          IF ~execOk THEN
              /\ ApiReturn("database_error: failed to update progress",
                           FALSE, "")
              /\ UNCHANGED library
          ELSE IF <<apiReq.user, apiReq.manga>> \notin DOMAIN library THEN
              /\ ApiReturn("validation_error: manga is not in user's library",
                           FALSE, "")
              /\ UNCHANGED library
          ELSE
              /\ library' = [library EXCEPT
                                ![<<apiReq.user, apiReq.manga>>] = apiReq.chapter]
              /\ apiPc' = "dial"
              /\ UNCHANGED <<apiRes, apiOpen>>
    /\ UNCHANGED <<apiReq, apiQuiet>>
    /\ UNCHANGED <<tvars, uvars, svars, cvars>>

\* service.go lines 393-405 and tcp_client.go lines 49-70: build the
\* update, dial the TCP server and send the auth message.
Dial ==
    /\ apiPc = "dial"
    /\ apiQuiet' = (ConnsOf(connections, apiReq.user) = {})
    /\ \E up \in BOOLEAN :
          IF ~up THEN
              ApiReturn("", FALSE, "dial_error")
          ELSE IF apiReq.user = NoUser THEN
              /\ apiPc' = "done"
              /\ apiRes' = [NoRes EXCEPT
                               !.BroadcastError = "missing user ID for TCP auth"]
              /\ apiOpen' = "closed"
          ELSE
              /\ apiPc' = "auth"
              /\ apiOpen' = "open"
              /\ UNCHANGED apiRes
    /\ UNCHANGED <<library, apiReq>>
    /\ UNCHANGED <<tvars, uvars, svars, cvars>>

\* tcp_client.go lines 59-62 and 90: the frames BroadcastProgress writes.
ApiAuthFrame == [kind |-> "json", type |-> "auth", user_id |-> apiReq.user]
ApiProgressFrame ==
    [kind |-> "json", type |-> "progress", user_id |-> apiReq.user,
     timestamp |-> Now]

\* What BroadcastProgress can report besides a refusal by the server: the
\* dial, a read or a write on its connection failed.
NetworkErrors == {"dial_error", "read_error", "write_error"}

\* tcp_client.go lines 73-87: read the auth response.  The read returns
\* the first frame the server wrote, or an error when the server's write
\* failed or the server closed the connection without writing.
ApiReadResponse ==
    /\ apiPc = "auth"
    /\ LET o == out[ApiConn] IN
          IF o # << >> /\ Head(o).type = "auth_response" THEN
              IF Head(o).status = "ok" THEN
                  /\ apiPc' = "send"
                  /\ UNCHANGED <<apiRes, apiOpen>>
              ELSE
                  ApiReturn("", FALSE,
                            IF Head(o).error = "" THEN "authentication_failed"
                            ELSE Head(o).error)
          ELSE IF o # << >> /\ Head(o).type = "progress" THEN
              ApiReturn("", FALSE, "unexpected TCP auth response type")
          ELSE
              /\ o # << >> \/ pc[ApiConn] = "done"
              /\ ApiReturn("", FALSE, "read_error")
    /\ UNCHANGED <<library, apiReq, apiQuiet>>
    /\ UNCHANGED <<tvars, uvars, svars, cvars>>

\* tcp_client.go lines 90-97 and service.go lines 405-415: write the
\* progress frame, return and close the connection.
ApiSendProgress ==
    /\ apiPc = "send"
    /\ \E ok \in BOOLEAN :
          IF ok THEN ApiReturn("", TRUE, "")
          ELSE ApiReturn("", FALSE, "write_error")
    /\ UNCHANGED <<library, apiReq, apiQuiet>>
    /\ UNCHANGED <<tvars, uvars, svars, cvars>>

\* The handler of the API's connection reads what BroadcastProgress wrote:
\* the auth message, then the progress frame, then the end of the stream.
ApiServeAuth ==
    /\ apiOpen = "open"
    /\ ReadAuthFrame(ApiConn, ApiAuthFrame)

ApiServeProgress ==
    /\ apiRes.BroadcastSent
    /\ nread[ApiConn] = 0
    /\ ReadLoopFrame(ApiConn, ApiProgressFrame, MaxFrames)

ApiServeClose ==
    /\ apiOpen = "closed"
    /\ apiRes.BroadcastSent => nread[ApiConn] > 0
    /\ ReadLoopFrame(ApiConn, ReadErr, MaxFrames)

\* The TCP server with one UpdateProgress call of the API layer on
\* connection ApiConn, beside clients that come and go and send no
\* progress frame of their own.
ApiNext ==
    \/ \E u \in UserIDs, m \in MangaIDs, ch \in Chapters :
          UpdateProgressCall(u, m, ch)
    \/ LibraryCheck
    \/ ValidateChapter
    \/ DbUpdate
    \/ Dial
    \/ ApiReadResponse
    \/ ApiSendProgress
    \/ ApiServeAuth
    \/ ApiServeProgress
    \/ ApiServeClose
    \/ \E c \in ApiClients : ReadAuth(c)
    \/ \E c \in ApiClients : ReadNoProgress(c)
    \/ \E c \in Conns : RegLock(c)
    \/ \E c \in Conns : RegCheck(c)
    \/ \E c \in Conns : RegInsert(c)
    \/ \E c \in Conns : SendReject(c)
    \/ \E c \in Conns : SendAck(c)
    \/ \E c \in Conns : Enqueue(c)
    \/ \E c \in Conns : UnregLock(c)
    \/ \E c \in Conns : UnregisterClient(c)
    \/ Dequeue
    \/ RLock
    \/ WriteOne
    \/ RUnlock

ApiSpec == Init /\ [][ApiNext]_vars

ApiTypeOK ==
    /\ apiPc \in {"idle", "library", "validate", "update", "dial", "auth",
                  "send", "done"}
    /\ apiOpen \in {"none", "open", "closed"}
    /\ apiQuiet \in BOOLEAN
    /\ apiRes.BroadcastSent \in BOOLEAN
    /\ DOMAIN library = LibraryRows
    /\ \A k \in LibraryRows : library[k] \in Chapters \cup {0}

\* ====================================================================
\* WebSocket chat hub (cmd/websocket-server, the ChatHub of package main;
\* cmd/all-servers/main.go holds the same hub without sendHistory)
\* ====================================================================
\* c.Query("username"), "guest" when empty (lines 122-125).
ChatNames == {"", "u1"}
Username(q) == IF q = "" THEN "guest" ELSE q

\* ChatPayload.  Message stands for the text: the number of the payload
\* for a client's message, 0 for a message of the hub; of is the conn a
\* join or leave message of the hub is about (NoConn otherwise), which the
\* wire format does not carry.
ChatPayload(type, username, text, ts, room, of) ==
    [Type |-> type, Username |-> username, Message |-> text,
     Timestamp |-> ts, Room |-> room, of |-> of]

\* What ReadJSON can decode from a client (lines 138-141).
ChatInputs ==
    { ChatPayload(t, u, 0, ts, r, NoConn) :
          t \in {"", "chat", "typing"}, u \in {NoUser, "u1"},
          ts \in Timestamps, r \in {"", "general"} }

\* lines 142-153: the defaults filled in before the payload is sent on.
ChatDefaults(p, username, text) ==
    ChatPayload(IF p.Type = "" THEN "chat" ELSE p.Type,
                IF p.Username = "" THEN username ELSE p.Username,
                text,
                IF p.Timestamp = 0 THEN Now ELSE p.Timestamp,
                IF p.Room = "" THEN "general" ELSE p.Room,
                NoConn)

\* lines 76-82 and 89-95: the messages the hub makes.
JoinMessage(username, c) == ChatPayload("join", username, 0, Now, "general", c)
LeaveMessage(username, c) == ChatPayload("leave", username, 0, Now, "general", c)

\* Variant: the history is never trimmed.
addHistoryNoTrim(h, msg) == Append(h, msg)

\* addHistory, lines 49-56.
addHistory(h, msg) ==
    IF Len(h) >= HistoryCap THEN Append(Tail(h), msg) ELSE Append(h, msg)

\* lines 121-131: the upgrade succeeded; the handler is about to send the
\* client on hub.Register.
ChatConnect(c, q) ==
    /\ cpc[c] = "new"
    /\ cname' = [cname EXCEPT ![c] = Username(q)]
    /\ cpc' = [cpc EXCEPT ![c] = "register"]
    /\ UNCHANGED <<chClients, chBroadcast, chHistory, hubPc, hubMsg, cmsg,
                   chOut, chLog, chN>>
    /\ UNCHANGED <<tvars, uvars, avars, svars>>

\* lines 69-75 and 131-133: the hub receives from Register (the handler's
\* send returns and its read loop starts), adds the client and sends it
\* the history.
HubRegister(c) ==
    /\ hubPc = "select"
    /\ cpc[c] = "register"
    /\ chClients' = [k \in DOMAIN chClients \cup {c} |->
                        IF k = c THEN cname[c] ELSE chClients[k]]
    /\ chOut' = [chOut EXCEPT ![c] = @ \o chHistory]
    /\ cpc' = [cpc EXCEPT ![c] = "read"]
    /\ hubMsg' = JoinMessage(cname[c], c)
    /\ hubPc' = "send"
    /\ UNCHANGED <<chBroadcast, chHistory, cname, cmsg, chLog, chN>>
    /\ UNCHANGED <<tvars, uvars, avars, svars>>

\* lines 83-88 and 134-136: the hub receives from Unregister, removes the
\* conn and closes it.
HubUnregister(c) ==
    /\ hubPc = "select"
    /\ cpc[c] = "unregister"
    /\ hubMsg' = LeaveMessage(IF c \in DOMAIN chClients THEN chClients[c]
                               ELSE "", c)
    /\ chClients' = [k \in DOMAIN chClients \ {c} |-> chClients[k]]
    /\ cpc' = [cpc EXCEPT ![c] = "gone"]
    /\ chOut' = [chOut EXCEPT ![c] = << >>]
    /\ hubPc' = "send"
    /\ UNCHANGED <<chBroadcast, chHistory, cname, cmsg, chLog, chN>>
    /\ UNCHANGED <<tvars, uvars, avars, svars>>

\* lines 76 and 89: h.Broadcast <- the join or leave message; the send
\* waits while the buffer is full.
HubSend ==
    /\ hubPc = "send"
    /\ Len(chBroadcast) < ChatCap
    /\ chBroadcast' = Append(chBroadcast, hubMsg)
    /\ hubMsg' = NoUpd
    /\ hubPc' = "select"
    /\ UNCHANGED <<chClients, chHistory, cpc, cname, cmsg, chOut, chLog, chN>>
    /\ UNCHANGED <<tvars, uvars, avars, svars>>

\* lines 96-107: the hub receives a message from Broadcast, keeps it in
\* the history when it is a chat message and writes it to every client.
HubBroadcast ==
    /\ hubPc = "select"
    /\ chBroadcast # << >>
    /\ LET msg == Head(chBroadcast) IN
          /\ chHistory' = IF msg.Type = "chat" THEN addHistory(chHistory, msg)
                          ELSE chHistory
          /\ chOut' = [c \in ChatConns |->
                          IF c \in DOMAIN chClients THEN Append(chOut[c], msg)
                          ELSE chOut[c]]
          /\ chLog' = Append(chLog, msg)
    /\ chBroadcast' = Tail(chBroadcast)
    /\ UNCHANGED <<chClients, hubPc, hubMsg, cpc, cname, cmsg, chN>>
    /\ UNCHANGED <<tvars, uvars, avars, svars>>

\* lines 137-153: one ReadJSON of the read loop, for a client sending the
\* given payloads, while fewer than limit payloads have been accepted: a
\* payload gets its defaults.
ChatReadOf(c, inputs, limit) ==
    /\ cpc[c] = "read"
    /\ chN < limit
    /\ \E p \in inputs :
          cmsg' = [cmsg EXCEPT ![c] = ChatDefaults(p, cname[c], chN + 1)]
    /\ chN' = chN + 1
    /\ cpc' = [cpc EXCEPT ![c] = "send"]
    /\ UNCHANGED <<chClients, chBroadcast, chHistory, hubPc, hubMsg, cname,
                   chOut, chLog>>
    /\ UNCHANGED <<tvars, uvars, avars, svars>>

ChatRead(c) == ChatReadOf(c, ChatInputs, MaxChat)

\* lines 134-141: ReadJSON returns an error, the loop ends and the
\* deferred send on Unregister follows.
ChatReadError(c) ==
    /\ cpc[c] = "read"
    /\ cpc' = [cpc EXCEPT ![c] = "unregister"]
    /\ UNCHANGED <<cmsg, chN>>
    /\ UNCHANGED <<chClients, chBroadcast, chHistory, hubPc, hubMsg, cname,
                   chOut, chLog>>
    /\ UNCHANGED <<tvars, uvars, avars, svars>>

\* line 154: hub.Broadcast <- payload.
ChatSend(c) ==
    /\ cpc[c] = "send"
    /\ Len(chBroadcast) < ChatCap
    /\ chBroadcast' = Append(chBroadcast, cmsg[c])
    /\ cmsg' = [cmsg EXCEPT ![c] = NoUpd]
    /\ cpc' = [cpc EXCEPT ![c] = "read"]
    /\ UNCHANGED <<chClients, chHistory, hubPc, hubMsg, cname, chOut, chLog,
                   chN>>
    /\ UNCHANGED <<tvars, uvars, avars, svars>>

ChatNext ==
    \/ \E c \in ChatConns, q \in ChatNames : ChatConnect(c, q)
    \/ \E c \in ChatConns : HubRegister(c)
    \/ \E c \in ChatConns : HubUnregister(c)
    \/ HubSend
    \/ HubBroadcast
    \/ \E c \in ChatConns : ChatRead(c)
    \/ \E c \in ChatConns : ChatReadError(c)
    \/ \E c \in ChatConns : ChatSend(c)

ChatSpec == Init /\ [][ChatNext]_vars

\* The hub with clients that send chat messages only, as many as the
\* Broadcast channel buffers.
ChatOnly ==
    { p \in ChatInputs : p.Type = "chat" /\ p.Username = NoUser
                           /\ p.Timestamp = NoTimestamp /\ p.Room = "" }

BusyChatNext ==
    \/ \E c \in ChatConns, q \in ChatNames : ChatConnect(c, q)
    \/ \E c \in ChatConns : HubRegister(c)
    \/ \E c \in ChatConns : HubUnregister(c)
    \/ HubSend
    \/ HubBroadcast
    \/ \E c \in ChatConns : ChatReadOf(c, ChatOnly, ChatCap)
    \/ \E c \in ChatConns : ChatReadError(c)
    \/ \E c \in ChatConns : ChatSend(c)

\* The Go scheduler runs the hub and every handler that can take a step,
\* and select picks among its ready cases at random, so that a case that
\* is ready again and again is taken.  Reads wait for the client.
FairChatSpec ==
    /\ Init /\ [][BusyChatNext]_vars
    /\ \A c \in ChatConns : SF_vars(HubRegister(c))
    /\ \A c \in ChatConns : SF_vars(HubUnregister(c))
    /\ SF_vars(HubBroadcast)
    /\ WF_vars(HubSend)
    /\ \A c \in ChatConns : WF_vars(ChatSend(c))

ChatTypeOK ==
    /\ hubPc \in {"select", "send"}
    /\ cpc \in [ChatConns -> {"new", "register", "read", "send",
                              "unregister", "gone"}]
    /\ Len(chBroadcast) <= ChatCap
    /\ DOMAIN chClients \subseteq ChatConns
    /\ chN <= MaxChat

\* ====================================================================
\* Properties
\* ====================================================================

\* Handles the registry holds, counted per connection.
Handles == UNION { connections[u] : u \in DOMAIN connections }

\* C1: in every reachable state the registry holds at most MaxClients
\* connection handles, summed over all users.
C1_TotalAtMostMaxClients ==
    /\ Total(connections) <= MaxClients
    /\ Cardinality(Handles) <= MaxClients

C1_Witness ==
    /\ Total(connections) = MaxClients
    /\ \E c \in Conns : pc[c] = "reject"

\* C2: the capacity check and the insertion of registerClient are one
\* atomic step with respect to other registrations: an insertion happens
\* only while the slot its check saw is still free, by the one goroutine
\* holding the mutex, and a registration is refused only when its check
\* finds the registry full.  With one slot left and several concurrent
\* callers, one inserts and the others, checking afterwards, are refused.
C2_CheckThenInsertAtomic ==
    [][\A c \in Conns :
         /\ (pc[c] = "reg_insert" /\ pc'[c] = "ack") =>
               /\ Total(connections) < MaxClients
               /\ Total(connections') = Total(connections) + 1
               /\ \A d \in Conns \ {c} : pc[d] \notin {"reg_check", "reg_insert"}
         /\ (pc[c] = "reg_check" /\ pc'[c] = "reject") =>
               Total(connections) >= MaxClients
         /\ (pc[c] = "reg_check" /\ pc'[c] = "reg_insert") =>
               Total(connections) < MaxClients
      ]_vars

C2_Witness ==
    /\ Total(connections) = MaxClients
    /\ \E c, d \in Conns :
          /\ pc[c] = "ack"
          /\ pc[d] = "reject"
          /\ nUnregFound = 0

\* C3: the number of handles in the registry equals the number of
\* registerClient calls that returned success minus the number of
\* unregisterClient calls that found the handle under the user.
C3_CountIsRegistersMinusUnregisters ==
    Total(connections) = nRegOk - nUnregFound

C3_Witness ==
    /\ nRegOk >= 2
    /\ nUnregFound >= 1
    /\ Total(connections) >= 1

\* C4: a registerClient call that finds MaxClients or more handles returns
\* ErrServerAtCapacity and leaves the registry as it was: nothing added,
\* no handle removed or closed, no entry created for the rejected user;
\* the rejection that follows closes only the rejected connection.
C4_RejectionLeavesRegistry ==
    [][\A c \in Conns :
         /\ (pc[c] = "reg_check" /\ Total(connections) >= MaxClients
                /\ pc'[c] # pc[c]) =>
               /\ pc'[c] = "reject"
               /\ connections' = connections
               /\ closed' = closed
         /\ (pc[c] = "reject" /\ pc'[c] # pc[c]) =>
               /\ connections' = connections
               /\ c \notin Handles
               /\ \A h \in Conns \ {c} : closed'[h] = closed[h]
      ]_vars

C4_Witness ==
    \E c \in Conns :
        /\ pc[c] = "done"
        /\ out[c] = << AuthResponse("error", "server_at_capacity") >>
        /\ Total(connections) = MaxClients
        /\ nRegOk = MaxClients
        /\ nUnregFound = 0
        /\ \A h \in Handles : ~closed[h]

\* C5: registerClient is refused only for capacity: below MaxClients it
\* succeeds, it adds the handle to the user's set and keeps (and does not
\* close) every handle already registered, also after an unregisterClient
\* has freed a slot of a full registry.
C5_RefusedOnlyForCapacity ==
    [][\A c \in Conns :
         /\ (pc[c] = "reg_check" /\ Total(connections) < MaxClients
                /\ pc'[c] # pc[c]) =>
               pc'[c] = "reg_insert"
         /\ (pc[c] = "reg_insert" /\ pc'[c] # pc[c]) =>
               /\ pc'[c] = "ack"
               /\ DOMAIN connections' = DOMAIN connections \cup {userID[c]}
               /\ \A u \in DOMAIN connections' :
                     connections'[u] =
                        ConnsOf(connections, u) \cup
                           (IF u = userID[c] THEN {c} ELSE {})
               /\ closed' = closed
      ]_vars

C5_Witness ==
    /\ nRegOk = MaxClients + 1
    /\ nUnregFound = 1
    /\ \E u \in DOMAIN connections : Cardinality(connections[u]) >= 2
    /\ \E c \in Conns : pc[c] = "ack"

\* Number of times frame x was written to a connection whose log is log.
Occ(log, x) == Cardinality({ i \in 1..Len(log) : log[i] = x })

\* The progress updates written to connection h, in order of writing.
ProgressOf(h) == SelectSeq(out[h], LAMBDA f : f.type = "progress")

\* C6: for every update the dispatcher handles, the connections it writes
\* to are exactly the handles registered under the update's user when it
\* looks the user up: each such handle is written, and no handle of another
\* user is.
C6_WritesExactlyTheUsersHandles ==
    [][/\ \A h \in Conns :
             (Len(out'[h]) > Len(out[h])
                 /\ out'[h][Len(out'[h])].type = "progress") =>
                /\ out'[h][Len(out'[h])] = dUpd
                /\ h \in ConnsOf(connections, dUpd.UserID)
                /\ userID[h] = dUpd.UserID
       /\ (dpc = "range" /\ dpc' = "recv") =>
             \A h \in Conns :
                 (Occ(out[h], dUpd) >= 1) <=>
                     (h \in ConnsOf(connections, dUpd.UserID))
      ]_vars

C6_Witness ==
    /\ dpc = "range"
    /\ RangeNext = {}
    /\ Cardinality(dVisited) = 1
    /\ DOMAIN connections = UserIDs

\* C7: every update a handler sends on Broadcast carries the user the
\* connection authenticated as, whatever user_id the progress frame held,
\* so no connection gets an update that a connection of another user sent.
C7_UpdateCarriesAuthenticatedUser ==
    /\ \A c \in Conns : pc[c] = "send" => upd[c].UserID = userID[c]
    /\ \A i \in 1..Len(Broadcast) : Broadcast[i].UserID = Broadcast[i].auth
    /\ \A h \in Conns : \A i \in 1..Len(out[h]) :
          out[h][i].type = "progress" => out[h][i].auth = userID[h]

\* C8: handling an update for a user with N handles makes exactly N Write
\* calls, one per handle, whichever of them fail; a failed Write leaves the
\* loop running and the registry unchanged, and the dispatcher goes back to
\* receiving.
C8_OneWritePerHandleDespiteFailures ==
    [][/\ (dpc = "range" /\ dpc' = "recv") =>
             /\ Cardinality(ConnsOf(connections, dUpd.UserID)) = dCount
             /\ \A h \in ConnsOf(connections, dUpd.UserID) :
                   Occ(out[h], dUpd) = 1
             /\ dFail \subseteq ConnsOf(connections', dUpd.UserID)
       /\ (dpc = "range" /\ dFail' \ dFail # {}) =>
             /\ dpc' = "range"
             /\ connections' = connections
             /\ closed' = closed
      ]_vars

C8_Witness ==
    /\ dpc = "range"
    /\ RangeNext = {}
    /\ dCount = 2
    /\ Cardinality(dFail) = 1

\* C9: while a Write of the dispatcher is pending, a handler that calls
\* registerClient or unregisterClient can take the mutex.
C9_RegistryFreeDuringWrite ==
    (dpc = "range" /\ RangeNext # {}) =>
        \A c \in Conns :
            /\ pc[c] = "reg_lock" => ENABLED RegLock(c)
            /\ pc[c] = "unreg_lock" => ENABLED UnregLock(c)

\* C10: updates are dispatched in the order they entered Broadcast: each
\* connection is written the updates in increasing order of entry, the
\* channel holds them in order of entry, and updates read from one
\* connection enter in the order the client sent them.
InFlight ==
    { Broadcast[i] : i \in 1..Len(Broadcast) } \cup
    (IF dUpd = NoUpd THEN {} ELSE {dUpd}) \cup
    UNION { { out[h][i] : i \in { j \in 1..Len(out[h]) :
                                    out[h][j].type = "progress" } } :
            h \in Conns }

C10_DispatchInQueueOrder ==
    /\ \A h \in Conns :
          \A i, j \in 1..Len(ProgressOf(h)) :
              i < j => ProgressOf(h)[i].enq < ProgressOf(h)[j].enq
    /\ \A i, j \in 1..Len(Broadcast) :
          i < j => Broadcast[i].enq < Broadcast[j].enq
    /\ \A i \in 1..Len(Broadcast) :
          dUpd # NoUpd => dUpd.enq < Broadcast[i].enq
    /\ \A e1, e2 \in InFlight :
          (e1.src = e2.src /\ e1.n < e2.n) => e1.enq < e2.enq

C10_Witness ==
    \E h \in Conns :
        /\ Len(ProgressOf(h)) = 2
        /\ ProgressOf(h)[1].src = ProgressOf(h)[2].src
        /\ \E g \in Conns \ {h} : Len(ProgressOf(g)) = 2

\* The server with clients of any kind, whose progress frames may lack
\* the timestamp.
RawClientNext ==
    \/ \E c \in Producers : ReadAuth(c)
    \/ \E c \in Producers : RegLock(c)
    \/ \E c \in Producers : RegCheck(c)
    \/ \E c \in Producers : RegInsert(c)
    \/ \E c \in Producers : SendAck(c)
    \/ \E c \in Producers : ReadLoop(c, RawLoopFrames, MaxFrames)
    \/ \E c \in Producers : Enqueue(c)
    \/ \E c \in Producers : UnregLock(c)
    \/ \E c \in Producers : UnregisterClient(c)
    \/ Dequeue
    \/ RLock
    \/ WriteOne
    \/ RUnlock

RawClientSpec == Init /\ [][RawClientNext]_vars

\* The server with clients whose streams end: as many connections as the
\* registry admits, and a peer closing its stream at any moment.
TeardownNext ==
    \/ \E c \in Producers : ReadAuth(c)
    \/ \E c \in Producers : RegLock(c)
    \/ \E c \in Producers : RegCheck(c)
    \/ \E c \in Producers : RegInsert(c)
    \/ \E c \in Producers : SendAck(c)
    \/ \E c \in Producers : ReadFrame(c)
    \/ \E c \in Producers : Enqueue(c)
    \/ \E c \in Producers : UnregLock(c)
    \/ \E c \in Producers : UnregisterClient(c)
    \/ \E c \in Producers : PeerClose(c)
    \/ Dequeue
    \/ RLock
    \/ WriteOne
    \/ RUnlock

\* A read on a stream that has ended returns at once.
ReadEOF(c) == eof[c] /\ (ReadAuth(c) \/ ReadFrame(c))

FairTeardownSpec ==
    /\ Init
    /\ [][TeardownNext]_vars
    /\ \A c \in Producers : HandlerFairness(c) /\ WF_vars(ReadEOF(c))
    /\ DispatcherFairness

\* C11: the Broadcast channel never holds more than BroadcastCap updates.
\* A handler at the channel send keeps its update until it has put it on
\* the channel: it can send exactly when a slot is free, an update leaves
\* the channel only by the dispatcher receiving it, and under fair
\* scheduling every handler waiting at the send does send.
C11_FullQueueBlocksProducer ==
    /\ [](Len(Broadcast) <= BroadcastCap)
    /\ [](\A c \in Conns :
            pc[c] = "send" =>
                (ENABLED Enqueue(c) <=> Len(Broadcast) < BroadcastCap))
    /\ [][/\ \A c \in Conns :
               pc[c] = "send" =>
                  \/ pc'[c] = "send" /\ upd'[c] = upd[c]
                  \/ /\ pc'[c] = "loop"
                     /\ Len(Broadcast) < BroadcastCap
                     /\ Broadcast' =
                           Append(Broadcast, [upd[c] EXCEPT !.enq = nEnq + 1])
          /\ Broadcast' # Broadcast =>
                \/ \E c \in Conns :
                      /\ pc[c] = "send"
                      /\ Broadcast' =
                            Append(Broadcast, [upd[c] EXCEPT !.enq = nEnq + 1])
                \/ /\ Broadcast # << >>
                   /\ Broadcast' = Tail(Broadcast)
                   /\ dUpd' = Head(Broadcast)
         ]_vars
    /\ \A c \in Conns : (pc[c] = "send") ~> (pc[c] = "loop")

\* A handler holds an update while the channel is full.
C11_Witness ==
    \E c \in Conns :
        /\ pc[c] = "send"
        /\ Len(Broadcast) = BroadcastCap
        /\ nEnq = BroadcastCap

\* C12: when the dispatcher has looked up an update whose user has no
\* registered handle, its next step ends the dispatch: no Write, no change
\* of the registry, no connection closed, no failure recorded, the channel
\* untouched; that step is always possible, and the dispatcher then
\* receives the next update as soon as there is one.
C12_NoHandleNoWrite ==
    /\ [][(dpc = "range" /\ ConnsOf(connections, dUpd.UserID) = {}
              /\ dvars' # dvars) =>
             /\ dpc' = "recv"
             /\ dCount = 0
             /\ dVisited = {}
             /\ dFail = {}
             /\ out' = out
             /\ connections' = connections
             /\ closed' = closed
             /\ Broadcast' = Broadcast
         ]_vars
    /\ []((dpc = "range" /\ ConnsOf(connections, dUpd.UserID) = {}) =>
             ENABLED RUnlock)
    /\ []((dpc = "recv" /\ Broadcast # << >>) => ENABLED Dequeue)

\* The dispatcher is writing the second update after the first one went to
\* no connection at all.
C12_Witness ==
    /\ dpc = "range"
    /\ dUpd.enq = 2
    /\ dVisited # {}
    /\ nUnregFound = 0
    /\ \A h \in Conns : \A i \in 1..Len(out[h]) :
          out[h][i].type = "progress" => out[h][i].enq # 1

\* C13: a handler whose first frame is malformed, is not of type auth or
\* has an empty user_id, or whose registration is refused for capacity,
\* writes one auth_response with status error and the reason, closes the
\* connection and ends: the connection never enters the registry, and no
\* update frame is read from it or sent on Broadcast for it.
C13_RejectedAuthOneErrorThenClosed ==
    /\ [](\A f \in AuthFrames \ {ReadErr} :
            /\ f.kind = "bad" => AuthError(f) = "invalid_auth_message"
            /\ (f.kind = "json" /\ f.type # "auth") =>
                  AuthError(f) = "expected_auth_message"
            /\ (f.kind = "json" /\ f.type = "auth" /\ f.user_id = NoUser) =>
                  AuthError(f) = "missing_user_id"
            /\ (f.kind = "json" /\ f.type = "auth" /\ f.user_id # NoUser) =>
                  AuthError(f) = "")
    /\ [][\A c \in Conns :
            /\ (pc[c] = "auth" /\ pc'[c] # "auth") =>
                  \/ /\ pc'[c] = "reg_lock"
                     /\ userID'[c] # NoUser
                     /\ out'[c] = << >>
                     /\ ~closed'[c]
                  \/ /\ pc'[c] = "done"
                     /\ closed'[c]
                     /\ \/ out'[c] = << >>
                        \/ \E r \in {"invalid_auth_message",
                                      "expected_auth_message",
                                      "missing_user_id"} :
                              out'[c] = << AuthResponse("error", r) >>
                     /\ connections' = connections
                     /\ Broadcast' = Broadcast
            /\ (pc[c] = "reject" /\ pc'[c] # "reject") =>
                  /\ pc'[c] = "done"
                  /\ closed'[c]
                  /\ out'[c] = << AuthResponse("error", "server_at_capacity") >>
                  /\ connections' = connections
                  /\ Broadcast' = Broadcast
            /\ pc[c] = "done" =>
                  /\ pc'[c] = "done"
                  /\ out'[c] = out[c]
                  /\ closed'[c]
                  /\ upd'[c] = NoUpd
         ]_vars
    /\ [](\A c \in Conns :
            (pc[c] = "reject" \/ (pc[c] = "done" /\ out[c] # << >>)) =>
               /\ c \notin Handles
               /\ upd[c] = NoUpd
               /\ nread[c] = 0
               /\ \A e \in InFlight : e.src # c)

\* A connection was turned away for its empty user_id while the server
\* goes on dispatching the updates of a registered one.
C13_Witness ==
    \E c \in Conns :
        /\ pc[c] = "done"
        /\ closed[c]
        /\ out[c] = << AuthResponse("error", "missing_user_id") >>
        /\ Handles # {}
        /\ dpc = "range"
        /\ dVisited # {}

\* C14: a handler is past registration (acknowledging, or in its read
\* loop) only with a non-empty authenticated user and its connection in
\* that user's set, entered by a successful registerClient; it has
\* written the auth_response with status ok before it takes any update
\* frame; and when the Write of that acknowledgment fails it goes to
\* unregisterClient, which removes the handle, without reading a frame.
C14_AckBeforeReadLoop ==
    /\ [](\A c \in Conns :
            /\ pc[c] \in {"ack", "loop", "send"} =>
                  /\ userID[c] \in UserIDs
                  /\ c \in ConnsOf(connections, userID[c])
            /\ (pc[c] \in {"loop", "send"} \/ nread[c] > 0 \/ upd[c] # NoUpd) =>
                  Occ(out[c], AuthResponse("ok", "")) = 1
            /\ Occ(out[c], WriteError(AuthResponse("ok", ""))) > 0 =>
                  /\ pc[c] \in {"unreg_lock", "unreg"}
                  /\ nread[c] = 0
                  /\ upd[c] = NoUpd
                  /\ \A e \in InFlight : e.src # c)
    /\ [][\A c \in Conns :
            /\ (pc'[c] = "ack" /\ pc[c] # "ack") =>
                  /\ pc[c] = "reg_insert"
                  /\ Total(connections) < MaxClients
                  /\ c \in Handles' \ Handles
            /\ (pc[c] = "ack" /\ pc'[c] # "ack") =>
                  /\ Len(out'[c]) = Len(out[c]) + 1
                  /\ \/ /\ pc'[c] = "loop"
                        /\ out'[c][Len(out'[c])] = AuthResponse("ok", "")
                     \/ /\ pc'[c] = "unreg_lock"
                        /\ out'[c][Len(out'[c])] =
                              WriteError(AuthResponse("ok", ""))
            /\ (pc[c] = "unreg_lock" /\ pc'[c] # pc[c]) => pc'[c] = "unreg"
            /\ (pc[c] = "unreg" /\ pc'[c] # pc[c]) =>
                  /\ pc'[c] = "done"
                  /\ c \notin Handles'
         ]_vars

\* A handler whose acknowledgment could not be written is about to
\* unregister, beside a handler of the same user that is in its read loop.
C14_Witness ==
    \E c, d \in Conns :
        /\ pc[c] = "unreg"
        /\ out[c] = << WriteError(AuthResponse("ok", "")) >>
        /\ pc[d] = "loop"
        /\ userID[d] = userID[c]
        /\ nread[d] = 1

C16_UnregisterRemovesOnlyThatHandle ==
    [][\A c \in Conns :
         (pc[c] = "unreg" /\ pc'[c] = "done") =>
            /\ \A u \in UserIDs :
                  ConnsOf(connections', u) =
                     ConnsOf(connections, u) \
                        (IF u = userID[c] THEN {c} ELSE {})
            /\ DOMAIN connections' \subseteq DOMAIN connections
            /\ closed'[c]
            /\ \A h \in Conns \ {c} :
                  /\ closed'[h] = closed[h]
                  /\ pc'[h] = pc[h]
                  /\ userID'[h] = userID[h]
      ]_vars

\* A handler is inside unregisterClient for an old handle of a user whose
\* new connection has just been registered.
C16_Witness ==
    \E c, d \in Conns :
        /\ pc[c] = "unreg"
        /\ muW = c
        /\ pc[d] = "ack"
        /\ userID[d] = userID[c]
        /\ {c, d} \subseteq ConnsOf(connections, userID[c])
        /\ nUnregFound = 1

\* C17: unregisterClient is idempotent.  On every registry the server can
\* hold, for every user and handle: a second call changes nothing after
\* the first, and a call for a handle that is not in the user's set
\* changes neither the registry nor the number of handles.  So is the
\* registry each unregisterClient call of a handler leaves.
C17_UnregisterIdempotent ==
    /\ [](\A u \in UserIDs, c \in Conns :
            LET m1 == Remove(connections, u, c)
            IN /\ Remove(m1, u, c) = m1
               /\ ~Found(m1, u, c)
               /\ Total(Remove(m1, u, c)) = Total(m1)
               /\ ~Found(connections, u, c) =>
                     /\ m1 = connections
                     /\ Total(m1) = Total(connections))
    /\ [][\A c \in Conns :
            (pc[c] = "unreg" /\ pc'[c] = "done") =>
               /\ Remove(connections', userID[c], c) = connections'
               /\ \A u \in UserIDs \ {userID[c]} :
                     Remove(connections, u, c) = connections
         ]_vars

\* A handle has been unregistered from a registry that still holds
\* handles a repeated call must leave alone.
C17_Witness ==
    \E c \in Conns :
        /\ pc[c] = "done"
        /\ closed[c]
        /\ nUnregFound = 1
        /\ nRegOk = MaxClients + 1
        /\ \A d \in Conns \ {c} : pc[d] = "loop"

\* C18: every progress update the server writes to a connection carries
\* a timestamp, also when the frame it was read from had none.
C18_WrittenProgressHasTimestamp ==
    \A h \in Conns : \A i \in 1..Len(out[h]) :
        out[h][i].type = "progress" => out[h][i].Timestamp # NoTimestamp

\* C19: in every state the registration table holds at most one entry
\* per user, and right after a register datagram for user U from address
\* A with topics T was handled, U's one entry is (A, T): whatever U had
\* registered before, from whatever address, is gone, and the topics are
\* those of the datagram.
C19_RegisterReplacesUserEntry ==
    /\ \A u \in UserIDs : Cardinality(EntriesOf(clients, u)) <= 1
    /\ (udpLast.msg.type = "register" /\ udpLast.msg.decodes
           /\ udpLast.msg.user_id # NoUser) =>
          \E i \in 1..Len(clients) :
              /\ EntriesOf(clients, udpLast.msg.user_id) = {i}
              /\ clients[i] = [Addr |-> udpLast.from,
                               UserID |-> udpLast.msg.user_id,
                               MangaIDs |-> udpLast.msg.manga_ids]

\* A user registered from one address with one topic registers again from
\* another address with another topic, beside another user's entry.
C19_Witness ==
    \E u \in UserIDs, i \in 1..Len(udpBefore) :
        /\ udpLast.msg.type = "register"
        /\ udpLast.msg.decodes
        /\ udpLast.msg.user_id = u
        /\ udpLast.from = "a2"
        /\ udpLast.msg.manga_ids = <<"m2">>
        /\ udpBefore[i] = [Addr |-> "a1", UserID |-> u, MangaIDs |-> <<"m1">>]
        /\ Len(clients) = 2
        /\ clients[2] = [Addr |-> "a2", UserID |-> u, MangaIDs |-> <<"m2">>]

TopicsOf(l) == { l[i] : i \in 1..Len(l) }

\* C21: right after an unregister datagram for user U with a non-empty
\* topic list was handled, an entry U had is gone exactly when its topics
\* share a topic with the list or it had no topics; an entry of U with
\* topics disjoint from the list is still in the table, as it was.
C21_ScopedUnregisterRemovesMatching ==
    (udpLast.msg.type = "unregister" /\ udpLast.msg.decodes
        /\ udpLast.msg.user_id # NoUser /\ udpLast.msg.manga_ids # << >>) =>
       \A i \in EntriesOf(udpBefore, udpLast.msg.user_id) :
           LET e == udpBefore[i]
               hit == \/ TopicsOf(e.MangaIDs) \cap
                            TopicsOf(udpLast.msg.manga_ids) # {}
                      \/ e.MangaIDs = << >>
           IN /\ hit => EntriesOf(clients, udpLast.msg.user_id) = {}
              /\ ~hit => \E j \in 1..Len(clients) : clients[j] = e

\* An entry with two topics was dropped by an unregister naming the
\* second of them, after one naming neither had left it in place.
C21_Witness ==
    \E u \in UserIDs, i \in 1..Len(udpBefore) :
        /\ udpLast.msg.type = "unregister"
        /\ udpLast.msg.decodes
        /\ udpLast.msg.user_id = u
        /\ udpLast.msg.manga_ids = <<"m2">>
        /\ udpBefore[i].UserID = u
        /\ udpBefore[i].MangaIDs = <<"m1", "m2">>
        /\ EntriesOf(clients, u) = {}
        /\ Len(clients) = 1

\* C22: right after a release datagram was handled, the sends made are
\* one per entry of the table as it was, in table order, each to the
\* entry's address and each carrying the release, whatever the entries'
\* topics and whichever sends failed; the table is as it was.
C22_OneSendPerEntry ==
    (udpLast.msg.type = "chapter_release" /\ udpLast.msg.decodes) =>
       /\ clients = udpBefore
       /\ Len(udpSent) = Len(udpBefore)
       /\ \A i \in 1..Len(udpSent) :
             /\ udpSent[i].to = udpBefore[i].Addr
             /\ udpSent[i].msg.type = "chapter_release"
             /\ udpSent[i].msg.manga_id = udpLast.msg.manga_id

\* The first of two sends failed and the second was still made, to an
\* entry whose topics do not name the released manga.
C22_Witness ==
    /\ udpLast.msg.type = "chapter_release"
    /\ udpLast.msg.decodes
    /\ udpLast.msg.manga_id = "m1"
    /\ Len(udpSent) = 2
    /\ ~udpSent[1].ok
    /\ udpSent[2].ok
    /\ clients[2].MangaIDs = <<"m2">>

\* C23: right after a register or unregister datagram without a user
\* identity was handled, the table is as it was and one register_response
\* with status error has been sent to the datagram's sender.
C23_MissingUserReported ==
    (udpLast.msg.type \in {"register", "unregister"} /\ udpLast.msg.decodes
        /\ udpLast.msg.user_id = NoUser) =>
       /\ clients = udpBefore
       /\ Len(udpSent) = 1
       /\ udpSent[1].to = udpLast.from
       /\ udpSent[1].msg.type = "register_response"
       /\ udpSent[1].msg.status = "error"

\* C30: right after a failed receive, a datagram that is not JSON or one
\* of unknown type, the table is as it was, nothing has been sent, and the
\* receive loop takes whatever datagram comes next: every register,
\* unregister and release can be handled.
C30_BadDatagramDropped ==
    (udpLast.msg \in {UdpReadErr, UdpBadJSON, UdpUnknown}) =>
       /\ clients = udpBefore
       /\ udpSent = << >>
       /\ \A a \in UdpAddrs :
             /\ \A m \in RegisterMessages : ENABLED HandleRegister(a, m)
             /\ \A m \in UnregisterMessages : ENABLED HandleUnregister(a, m)
             /\ \A m \in Notifications : ENABLED HandleNotification(a, m)
             /\ \A m \in {UdpReadErr, UdpBadJSON, UdpUnknown} :
                   ENABLED UdpDrop(a, m)

\* A receive failed while the table holds two entries.
C30_Witness ==
    /\ udpLast.msg = UdpReadErr
    /\ Len(clients) = 2
    /\ clients = udpBefore
    /\ udpLoop = "recv"

\* ---------------------------------------------------------------------
\* The frames the read loop skips: one that does not decode, or one whose
\* type is not "progress" (lines 158-166).
SkippedFrames ==
    {f \in LoopFrames : f.kind = "bad" \/ (f.kind = "json" /\ f.type # "progress")}

ProgressFrames ==
    {f \in LoopFrames : f.kind = "json" /\ f.type = "progress"}

ApiUpdateWrittenTo(c) ==
    \E i \in 1..Len(out[c]) :
       out[c][i].type = "progress" /\ out[c][i].src = ApiConn

\* C24: a publish of a progress update by the API layer for a user without
\* a registered connection (none when BroadcastProgress was called, and no
\* client connected as that user) returns without error whatever the
\* registry holds, unless its own connection to the server failed, and its
\* update is written to no connection of another user.
C24_PublishForAbsentUser ==
    /\ (/\ apiPc = "done" /\ apiOpen = "closed" /\ apiQuiet
        /\ \A c \in ApiClients : userID[c] # apiReq.user) =>
           /\ apiRes.err = ""
           /\ apiRes.BroadcastError \in {""} \cup NetworkErrors
    /\ \A c \in Conns : ApiUpdateWrittenTo(c) => userID[c] = apiReq.user

\* ---------------------------------------------------------------------
\* UpdateProgress has called BroadcastProgress (service.go line 405).
BroadcastAttempted ==
    \/ apiPc \in {"auth", "send"}
    \/ apiOpen # "none"
    \/ apiRes.BroadcastSent
    \/ apiRes.BroadcastError # ""

\* The row of the call holds the chapter of the request.
Persisted ==
    /\ <<apiReq.user, apiReq.manga>> \in DOMAIN library
    /\ library[<<apiReq.user, apiReq.manga>>] = apiReq.chapter

\* C28: UpdateProgress reaches the broadcast only through the library
\* check, the chapter validation and the database update, in that order
\* and none of them refusing: when the broadcast is attempted the request
\* is persisted and no error is returned, and a call that returned an error
\* has attempted no broadcast, so that the server saw no connection and no
\* update from it.
C28_BroadcastOnlyAfterPersist ==
    /\ []((BroadcastAttempted \/ apiPc = "dial") =>
            Persisted /\ apiRes.err = "")
    /\ [](apiRes.err # "" =>
            /\ ~BroadcastAttempted
            /\ pc[ApiConn] = "auth" /\ out[ApiConn] = << >>
            /\ \A c \in Conns : ~ApiUpdateWrittenTo(c))
    /\ [][/\ apiPc' = "validate" => apiPc \in {"library", "validate"}
          /\ apiPc' = "update" => apiPc \in {"validate", "update"}
          /\ apiPc' = "dial" => apiPc \in {"update", "dial"}
          /\ apiPc' = "auth" => apiPc \in {"dial", "auth"}
          /\ (apiPc = "update" /\ apiPc' = "dial") => Persisted']_vars

\* The call returned after a broadcast that was sent, the row updated.
C28_Witness ==
    /\ apiPc = "done"
    /\ apiRes.BroadcastSent
    /\ Persisted
    /\ \E c \in Conns : ApiUpdateWrittenTo(c)

\* ---------------------------------------------------------------------
\* C25: with every datagram of the subscribe and unsubscribe calls
\* delivered, a user with a stored subscription has an entry in the
\* registration table, and a release of a manga the user is subscribed to
\* is sent to the address of an entry of that user.
C25_SubscribedUserRegistered ==
    \A u \in UserIDs :
       SubscriptionsOf(u) # {} =>
          /\ EntriesOf(clients, u) # {}
          /\ (/\ udpLast.msg.type = "chapter_release"
              /\ udpLast.msg.decodes
              /\ udpLast.msg.manga_id \in SubscriptionsOf(u)) =>
                 \E i \in EntriesOf(udpBefore, u) :
                    \E j \in 1..Len(udpSent) :
                       udpSent[j].to = udpBefore[i].Addr

\* ---------------------------------------------------------------------
\* The chat messages among those the hub has taken from Broadcast and
\* written to its clients, in that order.
IsChat(msg) == msg.Type = "chat"
ChatsBroadcast == SelectSeq(chLog, IsChat)

\* The last n elements of s, all of s when it has fewer.
LastN(s, n) == IF Len(s) <= n THEN s ELSE SubSeq(s, Len(s) - n + 1, Len(s))

\* C26: the history of the chat hub never holds more than HistoryCap
\* entries, holds chat messages only, and is the last
\* min(n, HistoryCap) of the n chat messages the hub has broadcast, in the
\* order of their broadcast.
C26_HistoryIsLastChats ==
    /\ Len(chHistory) <= HistoryCap
    /\ \A i \in 1..Len(chHistory) : chHistory[i].Type = "chat"
    /\ chHistory = LastN(ChatsBroadcast, HistoryCap)

\* More chat messages than the history keeps have been broadcast, and a
\* message that is not a chat message among them.
C26_Witness ==
    /\ Len(ChatsBroadcast) > HistoryCap
    /\ Len(chHistory) = HistoryCap
    /\ \E i \in 1..Len(chLog) : chLog[i].Type = "join"
    /\ chHistory[1] # chLog[1]

\* ---------------------------------------------------------------------
\* The hub has taken the join (leave) message about conn c from Broadcast
\* and written it to the clients.
JoinsLogged(c) ==
    { i \in 1..Len(chLog) : chLog[i].Type = "join" /\ chLog[i].of = c }
LeavesLogged(c) ==
    { i \in 1..Len(chLog) : chLog[i].Type = "leave" /\ chLog[i].of = c }

\* The join and leave messages are made in order and at most once: the
\* join of a conn is sent on Broadcast when the conn is in the client set,
\* its leave when it is no longer, and the leave carries its username.
JoinLeaveInOrder ==
    /\ hubPc = "send" =>
          /\ hubMsg.Type \in {"join", "leave"}
          /\ hubMsg.Type = "join" <=> hubMsg.of \in DOMAIN chClients
          /\ hubMsg.Username = cname[hubMsg.of]
    /\ \A c \in ChatConns :
          /\ Cardinality(JoinsLogged(c)) <= 1
          /\ Cardinality(LeavesLogged(c)) <= 1
          /\ JoinsLogged(c) # {} => cpc[c] \notin {"new", "register"}
          /\ LeavesLogged(c) # {} => cpc[c] = "gone"
          /\ \A i \in JoinsLogged(c) \cup LeavesLogged(c) :
                chLog[i].Username = cname[c]

\* A message taken from Broadcast is written to every conn of the client
\* set and to no other.
WrittenToAllClients ==
    HubBroadcast =>
       \A c \in ChatConns :
          chOut'[c] = IF c \in DOMAIN chClients
                      THEN Append(chOut[c], Head(chBroadcast))
                      ELSE chOut[c]

\* C27: every client the hub has registered gets its join message
\* broadcast, and every client the hub has unregistered its leave message
\* with its username, once each, written to all the clients in the client
\* set at that moment; the join is sent after the client was added and the
\* leave after it was removed.
C27_JoinAndLeaveBroadcast ==
    /\ []JoinLeaveInOrder
    /\ [][WrittenToAllClients]_vars
    /\ \A c \in ChatConns :
          /\ (cpc[c] = "read") ~> (JoinsLogged(c) # {})
          /\ (cpc[c] = "gone") ~> (LeavesLogged(c) # {})

\* ---------------------------------------------------------------------
\* C31: every update sent on Broadcast is received from it exactly once,
\* by broadcastLoop: the channel holds, in order, exactly the updates sent
\* and not yet received; a receive takes the oldest of them, removes it
\* and hands out an update that was never handed out before; no other
\* step changes the channel, whatever number of handlers are sending.
C31_DequeuedExactlyOnce ==
    /\ [](/\ \A i \in 1..Len(Broadcast) :
               Broadcast[i].enq = nEnq - Len(Broadcast) + i
          /\ dUpd # NoUpd => dUpd.enq <= nEnq - Len(Broadcast))
    /\ [][/\ Broadcast' # Broadcast =>
               \/ /\ nEnq' = nEnq + 1
                  /\ Len(Broadcast') = Len(Broadcast) + 1
                  /\ SubSeq(Broadcast', 1, Len(Broadcast)) = Broadcast
                  /\ dUpd' = dUpd
               \/ /\ dpc = "recv" /\ dpc' = "rlock"
                  /\ nEnq' = nEnq
                  /\ Broadcast = <<dUpd'>> \o Broadcast'
          /\ dUpd' # dUpd =>
               \/ dUpd' = NoUpd /\ Broadcast' = Broadcast
               \/ /\ dUpd = NoUpd
                  /\ Broadcast # << >>
                  /\ dUpd' = Head(Broadcast)
                  /\ Broadcast' = Tail(Broadcast)
                  /\ dUpd'.enq = nEnq - Len(Broadcast) + 1
                  /\ \A h \in Conns : Occ(out[h], dUpd') = 0
         ]_vars

\* Two handlers have sent an update each, and both have been received and
\* handled by the dispatcher.
C31_Witness ==
    /\ nEnq = 2
    /\ Broadcast = << >>
    /\ dpc = "recv"
    /\ \E h \in Conns :
          /\ Len(ProgressOf(h)) >= 1
          /\ \E g \in Conns \ {h} :
                /\ Len(ProgressOf(g)) >= 1
                /\ ProgressOf(g)[1].src # ProgressOf(h)[1].src

\* C33: the registry maps no user to an empty set of handles: a user's key
\* is in the map exactly when at least one handler has registered a handle
\* under the user and not yet removed it, and the unregisterClient call
\* that removes the last handle of a user removes the user's key.
C33_NoEmptyHandleSet ==
    /\ [](/\ \A u \in DOMAIN connections : connections[u] # {}
          /\ \A u \in UserIDs :
                u \in DOMAIN connections <=>
                   \E c \in Conns :
                      /\ userID[c] = u
                      /\ pc[c] \in {"ack", "loop", "send", "unreg_lock", "unreg"})
    /\ [][\A c \in Conns :
            (pc[c] = "unreg" /\ pc'[c] = "done") =>
               /\ ConnsOf(connections, userID[c]) \subseteq {c} =>
                     userID[c] \notin DOMAIN connections'
               /\ ConnsOf(connections, userID[c]) \ {c} # {} =>
                     /\ userID[c] \in DOMAIN connections'
                     /\ connections'[userID[c]] = connections[userID[c]] \ {c}
         ]_vars

\* The last handle of a user has been unregistered and the user's key is
\* gone, while another user still has a handle.
C33_Witness ==
    /\ nUnregFound >= 1
    /\ \E c \in Conns : pc[c] = "done" /\ closed[c]
    /\ \E u \in UserIDs :
          /\ u \notin DOMAIN connections
          /\ \E v \in UserIDs \ {u} : ConnsOf(connections, v) # {}

\* The entries of the table cs that belong to other users than u, in the
\* order of the table.
OthersOf(cs, u) == SelectSeq(cs, LAMBDA c : c.UserID # u)

\* C39: right after a register or unregister datagram for user U was
\* handled, the entries of every other user are what they were before:
\* same addresses, same topic lists, same order among themselves.  A
\* datagram that names no user or does not decode leaves the whole table.
C39_OtherUsersUntouched ==
    (udpLast.msg.type \in {"register", "unregister"}) =>
       IF udpLast.msg.decodes /\ udpLast.msg.user_id # NoUser
       THEN OthersOf(clients, udpLast.msg.user_id) =
               OthersOf(udpBefore, udpLast.msg.user_id)
       ELSE clients = udpBefore

\* User U, registered first in the table, has registered again from the
\* address another user is registered from: U's entry moved behind the
\* other user's entry, which is as it was.
C39_Witness ==
    \E u \in UserIDs :
        /\ udpLast.msg.type = "register"
        /\ udpLast.msg.decodes
        /\ udpLast.msg.user_id = u
        /\ Len(udpBefore) = 2
        /\ udpBefore[1].UserID = u
        /\ udpBefore[2].UserID # u
        /\ udpBefore[2].Addr = udpLast.from
        /\ udpBefore[2].MangaIDs # << >>
        /\ Len(clients) = 2
        /\ clients[1] = udpBefore[2]
        /\ clients[2].UserID = u

\* C36: the dispatcher writes only to handles that are in the registry,
\* so never to a handle whose unregisterClient has returned; the server
\* closes a registered handle only in unregisterClient, holding the write
\* lock and taking the handle out of the registry in the same critical
\* section; hence no handle in the registry is closed by the server, and
\* no write of the dispatcher goes to a handle the server closed.
C36_NoWriteAfterUnregister ==
    /\ [](\A h \in Handles : ~closed[h] /\ pc[h] # "done")
    /\ [][/\ \A h \in Conns :
               (Len(out'[h]) > Len(out[h])
                   /\ out'[h][Len(out'[h])].type = "progress") =>
                  /\ h \in Handles
                  /\ ~closed[h]
                  /\ pc[h] \notin {"unreg", "done"}
                  /\ muR /\ muW = NoConn
          /\ \A c \in Conns :
               (c \in Handles /\ closed'[c] # closed[c]) =>
                  /\ pc[c] = "unreg"
                  /\ muW = c /\ ~muR
                  /\ c \notin UNION { connections'[u] :
                                         u \in DOMAIN connections' }
         ]_vars

\* A handle has been unregistered and closed while an update it sent was
\* waiting; the dispatcher is now writing that update to the user's other
\* handle.
C36_Witness ==
    \E c \in Conns, h \in Conns :
        /\ h # c
        /\ pc[c] = "done"
        /\ closed[c]
        /\ dpc = "range"
        /\ dUpd # NoUpd
        /\ dUpd.src = c
        /\ dVisited = {h}
        /\ h \in Handles
        /\ Len(out[h]) >= 2

\* The conns whose handler has returned from a successful registerClient
\* for user u and has not entered unregisterClient's critical section.
RegisteredFor(u) ==
    { h \in Conns : userID[h] = u
                      /\ pc[h] \in {"ack", "loop", "send", "unreg_lock"} }

\* C32 as stated: an update for U received from Broadcast while h is
\* registered for U (after registerClient returned, before h is
\* unregistered) has been written to h when the dispatcher is done with it.
C32_ReceivedWhileRegisteredIsWritten ==
    [][(dpc = "range" /\ dpc' = "recv") =>
          \A h \in dAtRecv : Occ(out[h], dUpd) >= 1
      ]_vars

\* C32, amended: the dispatcher looks the user up under the read lock
\* after the receive, and the view it works from is the registry at that
\* lookup, never an older one: it counts and writes, once each, exactly
\* the conns of every handler whose registerClient for the user has
\* returned and which has not been unregistered by then, also those
\* registered after the receive; the registry does not change while it
\* writes; a conn registered at the receive is written unless it was
\* unregistered before the lookup.
C32_ViewAtLookupIsCurrent ==
    [][/\ (dpc = "rlock" /\ dpc' = "range") =>
             /\ ConnsOf(connections, dUpd.UserID) = RegisteredFor(dUpd.UserID)
             /\ dCount' = Cardinality(RegisteredFor(dUpd.UserID))
       /\ dpc = "range" =>
             /\ connections' = connections
             /\ \A h \in Conns : pc'[h] \in {"loop", "send"} => userID'[h] = userID[h]
             /\ RegisteredFor(dUpd.UserID) = ConnsOf(connections, dUpd.UserID)
       /\ (dpc = "range" /\ dpc' = "recv") =>
             /\ dVisited = RegisteredFor(dUpd.UserID)
             /\ \A h \in RegisteredFor(dUpd.UserID) : Occ(out[h], dUpd) = 1
             /\ \A h \in dAtRecv :
                   \/ Occ(out[h], dUpd) = 1
                   \/ pc[h] = "done" /\ closed[h]
      ]_vars

\* The dispatcher has written an update to a conn that was registered
\* after the update was received, and to no conn that was registered at
\* the receive and was unregistered before the lookup.
C32_Witness ==
    /\ dpc = "range"
    /\ RangeNext = {}
    /\ \E h \in dVisited \ dAtRecv : Occ(out[h], dUpd) = 1
    /\ \E g \in dAtRecv \ dVisited : pc[g] = "done"

\* C35: the first record the server writes on a connection is the
\* connection's auth_response: no progress update is written to a conn
\* before the handler has written the acknowledgment, so a handler that
\* has registered and not yet acknowledged has written nothing.
C35_FirstRecordIsAuthResponse ==
    \A c \in Conns :
        /\ out[c] # << >> => Head(out[c]).type # "progress"
        /\ pc[c] = "ack" => out[c] = << >>

\* C34: once the database update has succeeded, UpdateProgress returns
\* without error whatever becomes of the broadcast, and the row keeps the
\* chapter written.  BroadcastSent is set only by a call that read a
\* positive auth_response and then wrote its progress frame; a broadcast
\* that failed (dial, refusal of the auth message, server at capacity,
\* read or write error) leaves BroadcastSent false and BroadcastError
\* non-empty, and exactly one of the two is reported by a call that got
\* to the broadcast.
C34_BroadcastFailureKeepsSuccess ==
    /\ [](/\ apiPc \in {"dial", "auth", "send"} =>
                Persisted /\ apiRes = NoRes
          /\ apiPc = "send" =>
                /\ out[ApiConn] # << >>
                /\ Head(out[ApiConn]) = AuthResponse("ok", "")
          /\ (apiPc = "done" /\ apiRes.err = "") =>
                /\ Persisted
                /\ apiRes.BroadcastSent <=> apiRes.BroadcastError = ""
          /\ (apiPc = "done" /\ apiRes.err # "") =>
                ~apiRes.BroadcastSent /\ apiRes.BroadcastError = "")
    /\ [][/\ (apiPc \in {"dial", "auth", "send"} /\ apiPc' = "done") =>
                /\ apiRes'.err = ""
                /\ library' = library
                /\ apiRes'.BroadcastSent => apiPc = "send"
                /\ apiPc \in {"dial", "auth"} =>
                      /\ ~apiRes'.BroadcastSent
                      /\ apiRes'.BroadcastError # ""
          /\ apiPc = "done" =>
                /\ apiRes' = apiRes
                /\ library' = library
         ]_vars

\* The call was refused by a server at capacity after its row was written,
\* and returned without error.
C34_Witness ==
    /\ apiPc = "done"
    /\ apiRes.err = ""
    /\ ~apiRes.BroadcastSent
    /\ apiRes.BroadcastError = "server_at_capacity"
    /\ Persisted
    /\ library[<<apiReq.user, apiReq.manga>>] # 0
    /\ Total(connections) = MaxClients

\* The k-th update sent on Broadcast has been received and the dispatcher
\* is done with it.
Dispatched(k) ==
    /\ nEnq - Len(Broadcast) >= k
    /\ dUpd # NoUpd => dUpd.enq > k

\* A handler or the dispatcher is at the registry lock, inside it, or at
\* the channel send.
SomeoneWaits ==
    \/ dpc \in {"rlock", "range"}
    \/ \E c \in Conns :
          pc[c] \in {"reg_lock", "reg_check", "reg_insert", "send",
                     "unreg_lock", "unreg"}

\* C37: with every goroutine that can run scheduled and every Write
\* returning, each update sent on Broadcast is received and its dispatch
\* completed; and the dispatcher and the handlers never block one another
\* for good: whenever one of them is at the lock or at the channel send,
\* one of them can take a step, and a handler waiting for the lock or at
\* the send gets past it (to the acknowledgment, back to its read, or to
\* its end).
C37_EveryUpdateDispatched ==
    /\ \A k \in 1..(BroadcastCap + 1) : (nEnq >= k) ~> Dispatched(k)
    /\ [](SomeoneWaits =>
            \/ ENABLED Dequeue \/ ENABLED RLock
            \/ ENABLED WriteOne \/ ENABLED RUnlock
            \/ \E c \in Conns :
                  \/ ENABLED RegLock(c) \/ ENABLED RegCheck(c)
                  \/ ENABLED RegInsert(c) \/ ENABLED Enqueue(c)
                  \/ ENABLED UnregLock(c) \/ ENABLED UnregisterClient(c))
    /\ \A c \in Producers :
          (pc[c] \in {"reg_lock", "send", "unreg_lock"}) ~>
             (pc[c] \in {"ack", "loop", "done"})

\* The dispatcher holds an update and waits for the lock a handler holds
\* in unregisterClient, while the other handler is at the channel send and
\* another update is in the channel.
C37_Witness ==
    \E c, d \in Conns :
        /\ dpc = "rlock"
        /\ dUpd # NoUpd
        /\ muW = d
        /\ pc[d] = "unreg"
        /\ pc[c] = "send"
        /\ Len(Broadcast) = 1
        /\ nEnq = 2

\* C38: the run loop of the chat hub never blocks for good: whenever it
\* is at the send of a join or leave message, its Broadcast channel has a
\* free slot, so that it is back at its select; and a handler waiting to
\* hand the hub a Register, a Broadcast or an Unregister request gets it
\* taken, also when the clients have filled Broadcast to its capacity.
C38_HubNeverBlocked ==
    /\ [](hubPc = "send" => ENABLED HubSend)
    /\ (hubPc = "send") ~> (hubPc = "select")
    /\ \A c \in ChatConns :
          /\ (cpc[c] = "register") ~> (cpc[c] = "read")
          /\ (cpc[c] = "send") ~> (cpc[c] = "read")
          /\ (cpc[c] = "unregister") ~> (cpc[c] = "gone")

====
